---- MODULE Spec2Model ----
(***************************************************************************)
(* Combat core of the arena shooter: the pooled projectile records and     *)
(* their free list, the spawn request -> allocator pipeline, the fixed     *)
(* tick collision resolver and return commit, the enemy death trigger and  *)
(* the global effects state (hit-stop / slow-motion time control).         *)
(*                                                                         *)
(* Four specifications share the variables:                               *)
(*   Spec      the application: systems run in the order the plugins       *)
(*             schedule them, facts come from the physics layer (only      *)
(*             colliders whose layers interact touch), intents come from   *)
(*             request_player_bullets.                                     *)
(*   SpecAlloc, SpecResolver                                               *)
(*             the systems driven the way tests.rs drives them: records    *)
(*             are constructed directly, spawn requests and                *)
(*             collision-start messages are written by hand, then a        *)
(*             system is run.                                              *)
(*   SpecFx    the effects engine: trigger_armour_break,                   *)
(*             ensure_fx_handles and apply_global_fx.                      *)
(* Real numbers are fixed point: times in units of 10 ms, intensities and  *)
(* playback rate in thousandths.                                           *)
(***************************************************************************)
EXTENDS Integers, Sequences, FiniteSets, TLC

VARIABLES
    phase,      \* which system of the schedule runs next
    capacity,   \* BulletPool.capacity
    free,       \* BulletPool.free (a Vec used as a stack; the top is the last element)
    bullets,    \* the pooled bullet entities, by handle 1..Len(bullets)
    requests,   \* the SpawnBulletRequest messages the allocator's reader has not read
    res,        \* the resources Aim, PlayerEntity and MainCameraEntity
    chan,       \* Messages<SpawnBulletRequest>: the messages still buffered that the reader
                \* has read, and how many of the buffered messages are in the older buffer
    seen,       \* process_player_bullet_collisions: Local<HashSet<Entity>> of this run
    marked,     \* process_player_bullet_collisions: queued insert(ReturnToPool) commands
    nread,      \* CollisionStart messages read so far in the run under way
    hist,       \* history, per record: the budget it started with, the World contacts
                \* resolved since, whether an enemy contact consumed it
    dropped,    \* history of the last allocator run: the requests it found the pool exhausted
                \* for, and whether it fired a record that had spent part of its budget
    armour,     \* Armour.hits_remaining / max_hits of each enemy
    health,     \* Health.hp of each enemy
    armourfx,   \* ArmourFx of each enemy: last_hits_remaining
    life,       \* EnemyLifeState of each enemy
    elayers,    \* CollisionLayers of each enemy
    dying,      \* elapsed time of the Dying timer of each enemy, in units of 10 ms
    removal,    \* per enemy: "none", "marked" (PendingDespawn) or "despawned"
    lifestep,   \* how far the enemy lifecycle systems have run in this fixed tick
    fx,         \* GlobalFx
    handles,    \* FxHandles: camera, overlay, prev_shake_offset
    screen,     \* the camera and flash overlay entities
    speed,      \* Time<Virtual>.relative_speed, in thousandths
    probe,      \* the values a unit test of the newtypes holds
    twin        \* the epoch-stamp resolver run side by side with the set-based one: its
                \* CollisionEpoch, CollisionStamps and its own copy of what a resolver writes

vars == <<phase, capacity, free, bullets, requests, chan, res, seen, marked, nread, hist, dropped,
          armour, health, armourfx, life, elayers, dying, removal, lifestep,
          fx, handles, screen, speed, probe, twin>>

poolVars == <<capacity, free, bullets, requests, chan, res>>
runVars == <<seen, marked, nread>>
histVars == <<hist, dropped>>
enemyVars == <<armour, health, armourfx, life, elayers, dying, removal, lifestep>>
fxVars == <<fx, handles, screen, speed>>
testVars == <<probe, twin>>

-----------------------------------------------------------------------------
(* Bounds of the model *)

MaxCapacity == 2      \* pool capacities 0..MaxCapacity
MaxFacts == 2         \* collision-start facts per fixed tick
MaxQueue == 2         \* spawn requests written before one allocator run (SpecAlloc)
MaxTriggers == 2      \* trigger calls in one unit test (SpecNewtypes)
MaxSplit == 2         \* sub-steps of one decay (SpecNewtypes)
MantissaBits == 3     \* significant bits of a floating-point value (SpecNewtypes)
FracBits == 5         \* the smallest positive value is 2^-FracBits (SpecNewtypes)

-----------------------------------------------------------------------------
(* Program constants *)

DEFAULT_WALL_BOUNCES == 3
INITIAL_ARMOUR == 3
INITIAL_HP == 5
REQUEST_DAMAGE == 1
SPAWN_OFFSET == 18
BULLET_SPEED == 900

None == 0
Max(a, b) == IF a > b THEN a ELSE b

-----------------------------------------------------------------------------
(* Layers *)

Layer == {"Default", "World", "Player", "Enemy", "PlayerBullet", "EnemyBullet"}

CollisionLayers(m, f) == [memberships |-> {m}, filters |-> f]

active_bullet_layers == CollisionLayers("PlayerBullet", {"World", "Enemy"})

active_player_layers == active_bullet_layers

active_enemy_layers == CollisionLayers("EnemyBullet", {"World", "Player"})

inactive_bullet_layers == CollisionLayers("PlayerBullet", {})

non_interacting_enemy_layers == CollisionLayers("Enemy", {})

enemy_layers == CollisionLayers("Enemy", {"World", "Player", "PlayerBullet"})

player_layers == CollisionLayers("Player", {"World", "Enemy", "EnemyBullet"})

wall_layers == CollisionLayers("World", {"Player", "Enemy", "PlayerBullet", "EnemyBullet"})

is_in_layer(layers, layer) == layer \in layers.memberships

\* Two colliders touch only if each one's memberships meet the other's filters.
interacts_with(a, b) ==
    /\ a.memberships \cap b.filters # {}
    /\ b.memberships \cap a.filters # {}

-----------------------------------------------------------------------------
(* Entities *)

Enemies == {201}
Walls == {101}
Handles == 1..Len(bullets)

\* q.get_mut(e).is_ok(): e carries Bullet and PooledBullet
is_pooled_bullet(e) == e \in Handles

Vec2ZERO == <<0, 0>>

\* Bullet::activate(damage): the gameplay component of a fresh record.
activate(damage) == [damage |-> damage, wall_bounces_left |-> DEFAULT_WALL_BOUNCES]

\* The bundle init_bullet_pool spawns for each slot.
PooledRecord ==
    [state |-> "Inactive",
     damage |-> activate(1).damage,
     wall_bounces_left |-> activate(1).wall_bounces_left,
     pos |-> Vec2ZERO,
     vel |-> Vec2ZERO,
     vis |-> "Hidden",
     layers |-> inactive_bullet_layers]

\* Faulty variant of reset_for_fire: the bounce budget is left as it was.
reset_for_fire_keep(b, damage) == [b EXCEPT !.damage = damage]
\* Bullet::reset_for_fire
reset_for_fire(b, damage) ==
    [b EXCEPT !.damage = damage, !.wall_bounces_left = DEFAULT_WALL_BOUNCES]

\* Faulty variant of saturating_sub: u8 wrapping subtraction.
wrapping_sub(a, b) == (a - b) % 256
saturating_sub(a, b) == IF a >= b THEN a - b ELSE 0

\* Faulty variant of pop_free: the popped handle stays in the list.
pop_free_keep(f) ==
    IF Len(f) = 0 THEN [handle |-> None, rest |-> f]
    ELSE [handle |-> f[Len(f)], rest |-> f]
\* Faulty variant of pop_free: the oldest handle is taken (a queue).
pop_free_front(f) ==
    IF Len(f) = 0 THEN [handle |-> None, rest |-> f]
    ELSE [handle |-> Head(f), rest |-> Tail(f)]
\* Vec::pop on the free list: the popped handle (None if empty) and the rest.
pop_free(f) ==
    IF Len(f) = 0 THEN [handle |-> None, rest |-> f]
    ELSE [handle |-> f[Len(f)], rest |-> SubSeq(f, 1, Len(f) - 1)]

\* Faulty variant of push_free: the handle is pushed twice.
push_free_twice(f, e) == Append(Append(f, e), e)
\* Vec::push on the free list.
push_free(f, e) == Append(f, e)

-----------------------------------------------------------------------------
(* Startup: init_bullet_pool *)

\* Faulty variant of SpawnPool: the spawned handles are not pushed.
RECURSIVE SpawnPool_nofree(_, _, _)
SpawnPool_nofree(n, bs, f) ==
    IF n = 0 THEN [bullets |-> bs, free |-> f]
    ELSE SpawnPool_nofree(n - 1, Append(bs, PooledRecord), f)

RECURSIVE SpawnPool(_, _, _)
SpawnPool(n, bs, f) ==
    IF n = 0 THEN [bullets |-> bs, free |-> f]
    ELSE SpawnPool(n - 1, Append(bs, PooledRecord), push_free(f, Len(bs) + 1))

NewHist(b) == [budget0 |-> b.wall_bounces_left, wallhits |-> 0, byenemy |-> FALSE]

NoneDropped == [count |-> 0, reused |-> FALSE]

\* Both buffers empty.
NoMessages == [read |-> <<>>, older |-> 0]

init_bullet_pool ==
    /\ phase = "startup"
    /\ LET r == SpawnPool(capacity, bullets, <<>>)
       IN /\ bullets' = r.bullets
          /\ free' = r.free
          /\ hist' = [i \in 1..Len(r.bullets) |-> NewHist(r.bullets[i])]
    /\ phase' = "fixed"
    /\ UNCHANGED <<capacity, requests, chan, res, dropped>>
    /\ UNCHANGED runVars
    /\ UNCHANGED enemyVars
    /\ UNCHANGED testVars
    /\ UNCHANGED fxVars

-----------------------------------------------------------------------------
(* Update: request_player_bullets -> allocate_bullets_from_pool *)

Origins == {<<0, 0>>}             \* player positions

Scale(v, k) == <<v[1] * k, v[2] * k>>
Add(v, w) == <<v[1] + w[1], v[2] + w[2]>>

SpawnBulletRequest(kind, pos, vel, damage) ==
    [kind |-> kind, pos |-> pos, vel |-> vel, damage |-> damage]

PLAYER == 501
CAMERA == 401
\* Option<Vec2>: the empty sequence for None, <<v>> for Some(v)
NoVec2 == <<>>
Some(v) == <<v>>

Cursors == {Some(<<0, 5>>), Some(<<0, 0>>)}   \* cursor positions in world coordinates

\* The resources once the camera and the player are spawned: Aim is still its Default.
Resolved == [aim |-> NoVec2, player |-> PLAYER, camera |-> CAMERA]

\* A failed expect(): the process stops.
Panic ==
    /\ phase' = "panic"
    /\ UNCHANGED <<poolVars, histVars>>
    /\ UNCHANGED runVars
    /\ UNCHANGED enemyVars
    /\ UNCHANGED testVars
    /\ UNCHANGED fxVars

\* update_aim_from_cursor, for the cursor readings in `cursors` (NoVec2: outside the
\* window, or no world position for it).
AimRun(from, to, cursors) ==
    /\ phase = from
    /\ IF res.camera = None
       THEN Panic
       ELSE /\ \E c \in cursors : res' = [res EXCEPT !.aim = c]
            /\ phase' = to
            /\ UNCHANGED <<capacity, free, bullets, requests, chan, histVars>>
            /\ UNCHANGED runVars
            /\ UNCHANGED enemyVars
            /\ UNCHANGED testVars
            /\ UNCHANGED fxVars

\* dir = world_cursor - origin, normalized, Vec2::Y when it is (nearly) zero; the
\* cursors of the model are straight above the player or on it.
aim_dir(world_cursor, origin) ==
    LET d == <<world_cursor[1][1] - origin[1], world_cursor[1][2] - origin[2]>>
    IN IF d = <<0, 0>> THEN <<0, 1>>
       ELSE <<IF d[1] > 0 THEN 1 ELSE IF d[1] < 0 THEN -1 ELSE 0,
              IF d[2] > 0 THEN 1 ELSE IF d[2] < 0 THEN -1 ELSE 0>>

\* One frame of the producer: nothing without a fire edge, else one request.
Producer(from, to) ==
    /\ phase = from
    /\ \E buttons \in {"absent", "idle", "just_pressed"}, origin \in Origins :
          IF buttons # "just_pressed"
          THEN /\ phase' = to
               /\ UNCHANGED <<poolVars, histVars>>
               /\ UNCHANGED runVars
               /\ UNCHANGED enemyVars
               /\ UNCHANGED testVars
               /\ UNCHANGED fxVars
          ELSE IF res.player = None \/ res.aim = NoVec2
          THEN Panic
          ELSE /\ requests' =
                     Append(requests,
                            SpawnBulletRequest("Player",
                                               Add(origin, Scale(aim_dir(res.aim, origin),
                                                                 SPAWN_OFFSET)),
                                               Scale(aim_dir(res.aim, origin), BULLET_SPEED),
                                               REQUEST_DAMAGE))
               /\ phase' = to
               /\ UNCHANGED <<capacity, free, bullets, chan, res, histVars>>
               /\ UNCHANGED runVars
               /\ UNCHANGED enemyVars
               /\ UNCHANGED testVars
               /\ UNCHANGED fxVars

\* The application's frames: the cursor is in the window and the aim is computed
\* before the producer runs.
update_aim_in_window == AimRun("aim", "update", {Some(<<0, 5>>)})

request_player_bullets == Producer("update", "allocate")

\* The writes of the allocator's loop body to the record it popped.
Activated(b, req) ==
    [reset_for_fire(b, req.damage) EXCEPT
        !.state = "Active",
        !.pos = req.pos,
        !.vel = req.vel,
        !.vis = "Visible",
        !.layers = IF req.kind = "Player" THEN active_player_layers
                   ELSE active_enemy_layers]

\* Faulty variant of Allocate: a popped handle that is no pooled bullet is skipped.
RECURSIVE Allocate_skip(_, _, _, _, _)
Allocate_skip(reqs, bs, f, h, d) ==
    IF reqs = <<>>
    THEN [bullets |-> bs, free |-> f, hist |-> h, dropped |-> d, failed |-> FALSE]
    ELSE LET p == pop_free(f)
             e == p.handle
         IN IF e = None
            THEN Allocate_skip(Tail(reqs), bs, f, h, [d EXCEPT !.count = @ + 1])
            ELSE IF ~is_pooled_bullet(e)
            THEN Allocate_skip(Tail(reqs), bs, p.rest, h, d)
            ELSE LET nb == Activated(bs[e], Head(reqs))
                 IN Allocate_skip(Tail(reqs),
                                  [bs EXCEPT ![e] = nb],
                                  p.rest,
                                  [h EXCEPT ![e] = NewHist(nb)],
                                  [d EXCEPT !.reused =
                                      @ \/ bs[e].wall_bounces_left # DEFAULT_WALL_BOUNCES])

\* The allocator's loop over the requests it reads; failed when q.get_mut(e) is an
\* Err and the expect() stops the loop.
RECURSIVE Allocate(_, _, _, _, _)
Allocate(reqs, bs, f, h, d) ==
    IF reqs = <<>>
    THEN [bullets |-> bs, free |-> f, hist |-> h, dropped |-> d, failed |-> FALSE]
    ELSE LET p == pop_free(f)
             e == p.handle
         IN IF e = None
            THEN Allocate(Tail(reqs), bs, f, h, [d EXCEPT !.count = @ + 1])
            ELSE IF ~is_pooled_bullet(e)
            THEN [bullets |-> bs, free |-> p.rest, hist |-> h, dropped |-> d,
                  failed |-> TRUE]
            ELSE LET nb == Activated(bs[e], Head(reqs))
                 IN Allocate(Tail(reqs),
                             [bs EXCEPT ![e] = nb],
                             p.rest,
                             [h EXCEPT ![e] = NewHist(nb)],
                             [d EXCEPT !.reused =
                                 @ \/ bs[e].wall_bounces_left # DEFAULT_WALL_BOUNCES])

\* Faulty variant of reader_read: the reader starts from a fresh cursor.
reader_read_fresh(c, reqs) == c.read \o reqs

\* reader.read(): the buffered messages from the reader's cursor on
reader_read(c, reqs) == reqs

\* Faulty variant of AllocatorRun: requests that found no free slot stay queued.
AllocatorRun_retry(from, to) ==
    /\ phase = from
    /\ LET r == Allocate(reader_read(chan, requests), bullets, free, hist, NoneDropped)
       IN /\ bullets' = r.bullets
          /\ free' = r.free
          /\ hist' = r.hist
          /\ dropped' = r.dropped
          /\ requests' = SubSeq(requests, Len(requests) - r.dropped.count + 1, Len(requests))
          /\ chan' = [chan EXCEPT !.read = @ \o SubSeq(requests, 1, Len(requests) - r.dropped.count)]
    /\ phase' = to
    /\ UNCHANGED <<capacity, res>>
    /\ UNCHANGED runVars
    /\ UNCHANGED enemyVars
    /\ UNCHANGED testVars
    /\ UNCHANGED fxVars

\* One run of the system, between two points of a schedule.
AllocatorRun(from, to) ==
    /\ phase = from
    /\ LET r == Allocate(reader_read(chan, requests), bullets, free, hist, NoneDropped)
       IN /\ bullets' = r.bullets
          /\ free' = r.free
          /\ hist' = r.hist
          /\ dropped' = r.dropped
          /\ IF r.failed
             THEN phase' = "panic" /\ UNCHANGED <<requests, chan>>
             ELSE /\ phase' = to
                  /\ requests' = <<>>
                  /\ chan' = [chan EXCEPT !.read = @ \o requests]
    /\ UNCHANGED <<capacity, res>>
    /\ UNCHANGED runVars
    /\ UNCHANGED enemyVars
    /\ UNCHANGED testVars
    /\ UNCHANGED fxVars

allocate_bullets_from_pool == AllocatorRun("allocate", "post")

-----------------------------------------------------------------------------
(* FixedPostUpdate: process_player_bullet_collisions *)

CollisionStart(c1, c2, b1, b2) ==
    [collider1 |-> c1, collider2 |-> c2, body1 |-> b1, body2 |-> b2]

CollisionTarget(c, b) == [collider |-> c, body |-> b]

\* Faulty variant of gameplay_owner: the contact shape is taken for the owner.
gameplay_owner_collider(t) == t.collider

gameplay_owner(t) == IF t.body # None THEN t.body ELSE t.collider

targets(ev) ==
    <<CollisionTarget(ev.collider1, ev.body1), CollisionTarget(ev.collider2, ev.body2)>>

\* q_layers.get(e).is_ok(): e carries CollisionLayers
HasLayers(e) == e \in Handles \cup Walls \cup DOMAIN elayers \cup {PLAYER}

\* q_layers.get(e): the CollisionLayers of an entity that has them
LayersOf(bs, e) ==
    IF e \in Handles THEN bs[e].layers
    ELSE IF e \in Walls THEN wall_layers
    ELSE IF e = PLAYER THEN player_layers
    ELSE elayers[e]

\* commands.entity(b).insert(ReturnToPool), once applied: the record is marked for return
ReturnToPool(b) == [b EXCEPT !.state = "PendingReturn"]

\* Faulty variant of seen_insert: the set never grows.
seen_insert_forget(s, e) == [fresh |-> e \notin s, set |-> s]
\* Faulty variant of seen_insert: every handle counts as new.
seen_insert_always(s, e) == [fresh |-> TRUE, set |-> s \cup {e}]
\* HashSet::insert on the run's `seen` set: whether e was new, and the set afterwards.
seen_insert(s, e) == [fresh |-> e \notin s, set |-> s \cup {e}]

\* The World branch: one bounce is spent; the bullet is returned when none is left.
WorldContact(st, b) ==
    LET left == saturating_sub(st.bullets[b].wall_bounces_left, 1)
    IN [st EXCEPT
           !.bullets[b].wall_bounces_left = left,
           !.marked = IF left = 0 THEN @ \cup {b} ELSE @,
           !.hist[b].wallhits = @ + 1]

\* Faulty variant of EnemyContact: damage is applied whatever the armour.
EnemyContact_ungated(st, b, other_side) ==
    LET enemy_entity == gameplay_owner(other_side)
    IN [st EXCEPT
          !.armour[enemy_entity].hits_remaining = saturating_sub(@, 1),
          !.health[enemy_entity] = @ - st.bullets[b].damage,
          !.marked = @ \cup {b},
          !.hist[b].byenemy = TRUE]

\* Faulty variant of EnemyContact: a bullet that armour absorbs is returned as well.
EnemyContact_absorbing(st, b, other_side) ==
    LET enemy_entity == gameplay_owner(other_side)
    IN IF enemy_entity \in DOMAIN st.armour /\ st.armour[enemy_entity].hits_remaining > 0
       THEN [st EXCEPT !.armour[enemy_entity].hits_remaining = saturating_sub(@, 1),
                       !.marked = @ \cup {b}]
       ELSE [st EXCEPT
               !.health = IF enemy_entity \in DOMAIN st.health
                          THEN [@ EXCEPT ![enemy_entity] = @ - st.bullets[b].damage]
                          ELSE @,
               !.marked = @ \cup {b},
               !.hist[b].byenemy = TRUE]

\* Faulty variant of EnemyContact: the hit that damages Health puts the armour back.
EnemyContact_rearm(st, b, other_side) ==
    LET enemy_entity == gameplay_owner(other_side)
    IN IF enemy_entity \in DOMAIN st.armour /\ st.armour[enemy_entity].hits_remaining > 0
       THEN [st EXCEPT !.armour[enemy_entity].hits_remaining = saturating_sub(@, 1)]
       ELSE [st EXCEPT
               !.armour[enemy_entity].hits_remaining = st.armour[enemy_entity].max_hits,
               !.health[enemy_entity] = @ - st.bullets[b].damage,
               !.marked = @ \cup {b},
               !.hist[b].byenemy = TRUE]

\* The Enemy branch: armour absorbs the hit and the bullet flies on, else Health
\* takes the bullet's damage and the bullet is returned.
EnemyContact(st, b, other_side) ==
    LET enemy_entity == gameplay_owner(other_side)
    IN IF enemy_entity \in DOMAIN st.armour /\ st.armour[enemy_entity].hits_remaining > 0
       THEN [st EXCEPT !.armour[enemy_entity].hits_remaining = saturating_sub(@, 1)]
       ELSE [st EXCEPT
               !.health = IF enemy_entity \in DOMAIN st.health
                          THEN [@ EXCEPT ![enemy_entity] = @ - st.bullets[b].damage]
                          ELSE @,
               !.marked = @ \cup {b},
               !.hist[b].byenemy = TRUE]

\* The loop body for one CollisionStart message; st holds what the run has written so far.
ResolveFact(st, ev) ==
    LET t == targets(ev)
        sides == IF is_pooled_bullet(t[1].collider) THEN <<t[1], t[2]>>
                 ELSE IF is_pooled_bullet(t[2].collider) THEN <<t[2], t[1]>>
                 ELSE <<>>
    IN IF sides = <<>> THEN st
       ELSE LET b == sides[1].collider
                other_side == sides[2]
                other_layers == LayersOf(st.bullets, other_side.collider)
                ins == seen_insert(st.seen, b)
                st1 == [st EXCEPT !.seen = ins.set]
            IN IF ~ins.fresh THEN st
               ELSE IF ~HasLayers(other_side.collider) THEN st1
               ELSE IF is_in_layer(other_layers, "World") THEN WorldContact(st1, b)
               ELSE IF is_in_layer(other_layers, "Enemy") THEN EnemyContact(st1, b, other_side)
               ELSE st1

RunState == [bullets |-> bullets, armour |-> armour, health |-> health,
             seen |-> seen, marked |-> marked, hist |-> hist]

\* The facts the physics layer can report: a touching pair is a pooled bullet and a
\* wall or an enemy whose layers interact, each collider being its own rigid body.
PhysicsFacts ==
    UNION { { CollisionStart(b, o, b, o), CollisionStart(o, b, o, b) } :
            <<b, o>> \in { p \in Handles \X (Walls \cup Enemies) :
                             interacts_with(bullets[p[1]].layers, LayersOf(bullets, p[2])) } }

\* The run starts: seen.clear()
ResolveBegin(from) ==
    /\ phase = from
    /\ phase' = "resolving"
    /\ seen' = {}
    /\ marked' = {}
    /\ nread' = 0
    /\ UNCHANGED poolVars
    /\ UNCHANGED histVars
    /\ UNCHANGED enemyVars
    /\ UNCHANGED testVars
    /\ UNCHANGED fxVars

\* One iteration of the loop, on the world.
ResolveWrites(ev) ==
    /\ nread < MaxFacts
    /\ LET r == ResolveFact(RunState, ev)
       IN /\ bullets' = r.bullets
          /\ armour' = r.armour
          /\ health' = r.health
          /\ seen' = r.seen
          /\ marked' = r.marked
          /\ hist' = r.hist
    /\ nread' = nread + 1
    /\ UNCHANGED <<phase, capacity, free, requests, chan, res, dropped>>
    /\ UNCHANGED <<armourfx, life, elayers, dying, removal, lifestep>>
    /\ UNCHANGED fxVars

ResolveStep(ev) ==
    /\ ResolveWrites(ev)
    /\ UNCHANGED testVars

\* One iteration of `for ev in started.read()`
resolve_message ==
    /\ phase = "resolving"
    /\ \E ev \in PhysicsFacts : ResolveStep(ev)

\* CollisionEventSystems: the physics layer has written this tick's CollisionStart
\* messages (which ones they are is decided where they are read).
collision_events ==
    /\ phase = "fixed"
    /\ phase' = "physics"
    /\ UNCHANGED <<poolVars, histVars>>
    /\ UNCHANGED runVars
    /\ UNCHANGED enemyVars
    /\ UNCHANGED testVars
    /\ UNCHANGED fxVars

resolve_begin == ResolveBegin("physics")

\* The run ends and its queued commands are applied.
resolve_end ==
    /\ phase = "resolving"
    /\ bullets' = [i \in Handles |->
                     IF i \in marked THEN ReturnToPool(bullets[i]) ELSE bullets[i]]
    /\ marked' = {}
    /\ phase' = "commit"
    /\ nread' = 0
    /\ UNCHANGED <<capacity, free, requests, chan, res, seen, histVars>>
    /\ UNCHANGED enemyVars
    /\ UNCHANGED testVars
    /\ UNCHANGED fxVars

process_player_bullet_collisions == resolve_begin \/ resolve_message \/ resolve_end

-----------------------------------------------------------------------------
(* FixedPostUpdate: return_to_pool_commit *)

\* Faulty variant of Recycled: the record is put back in play.
Recycled_active(b) == [b EXCEPT !.state = "Active"]

\* Faulty variant of Recycled: the record stays visible and keeps its velocity.
Recycled_state_only(b) == [b EXCEPT !.state = "Inactive", !.layers = inactive_bullet_layers]

\* Faulty variant of Recycled: the state is left as the resolver set it.
Recycled_pending(b) ==
    [b EXCEPT !.vis = "Hidden", !.vel = Vec2ZERO, !.layers = inactive_bullet_layers]

\* The commit's writes to a record it recycles.
Recycled(b) ==
    [b EXCEPT !.state = "Inactive",
              !.vis = "Hidden",
              !.vel = Vec2ZERO,
              !.layers = inactive_bullet_layers]

\* The commit's loop over the pooled bullets, from handle i on.
RECURSIVE Commit(_, _, _)
Commit(i, bs, f) ==
    IF i > Len(bs) THEN [bullets |-> bs, free |-> f]
    ELSE IF bs[i].state # "PendingReturn" THEN Commit(i + 1, bs, f)
    ELSE Commit(i + 1, [bs EXCEPT ![i] = Recycled(@)], push_free(f, i))

CommitRun(from, to) ==
    /\ phase = from
    /\ LET r == Commit(1, bullets, free)
       IN /\ bullets' = r.bullets
          /\ free' = r.free
    /\ phase' = to
    /\ UNCHANGED <<capacity, requests, chan, res, histVars>>
    /\ UNCHANGED runVars
    /\ UNCHANGED enemyVars
    /\ UNCHANGED testVars
    /\ UNCHANGED fxVars

return_to_pool_commit == CommitRun("commit", "death")

-----------------------------------------------------------------------------
(* FixedPostUpdate: enemy_death_trigger *)

DYING_DURATION == 35    \* 0.35 s, in units of 10 ms
\* Time<Fixed>::delta, a setting of the schedule (64 Hz unless configured, 1 s in the
\* tests): 0.12 s here, so that an enemy is Dying for three ticks.
FIXED_DELTA == 12

\* The enemies the lifecycle queries match: With<Enemy>, Without<PendingDespawn>
Unmarked == { e \in Enemies : removal[e] = "none" }

\* The loop of enemy_death_trigger.
\* Faulty variant of DeathTriggerRun: the collision layers are left as they were.
DeathTriggerRun_layers_kept ==
    LET dies == { e \in Unmarked : life[e] = "Alive" /\ health[e] <= 0 }
    IN /\ life' = [e \in Enemies |-> IF e \in dies THEN "Dying" ELSE life[e]]
       /\ dying' = [e \in Enemies |-> IF e \in dies THEN 0 ELSE dying[e]]
       /\ elayers' = elayers

DeathTriggerRun ==
    LET dies == { e \in Unmarked : life[e] = "Alive" /\ health[e] <= 0 }
    IN /\ life' = [e \in Enemies |-> IF e \in dies THEN "Dying" ELSE life[e]]
       /\ dying' = [e \in Enemies |-> IF e \in dies THEN 0 ELSE dying[e]]
       /\ elayers' = [e \in Enemies |->
                        IF e \in dies THEN non_interacting_enemy_layers ELSE elayers[e]]

\* timer.tick(delta) of a TimerMode::Once timer
Timer_tick(elapsed, delta) == IF elapsed + delta >= DYING_DURATION THEN DYING_DURATION
                              ELSE elapsed + delta

\* Faulty variant of Timer_is_finished: the timer never reports its end.
Timer_is_finished_never(elapsed) == FALSE
\* Faulty variant of Timer_is_finished: finished as soon as the timer has run.
Timer_is_finished_started(elapsed) == elapsed > 0
Timer_is_finished(elapsed) == elapsed >= DYING_DURATION

\* The loop of enemy_death_progress and the PendingDespawn inserts it queues.
DeathProgressRun(delta) ==
    LET ticking == { e \in Unmarked : life[e] = "Dying" }
        done == { e \in ticking : Timer_is_finished(Timer_tick(dying[e], delta)) }
    IN /\ dying' = [e \in Enemies |->
                      IF e \in ticking THEN Timer_tick(dying[e], delta) ELSE dying[e]]
       /\ life' = [e \in Enemies |-> IF e \in done THEN "Dead" ELSE life[e]]
       /\ removal' = [e \in Enemies |-> IF e \in done THEN "marked" ELSE removal[e]]

\* The system run by hand, in a test.
DeathTrigger(to) ==
    /\ phase = "death"
    /\ DeathTriggerRun
    /\ phase' = to
    /\ UNCHANGED <<armour, health, armourfx, removal, lifestep, histVars>>
    /\ UNCHANGED poolVars
    /\ UNCHANGED runVars
    /\ UNCHANGED fxVars
    /\ UNCHANGED testVars

\* Faulty variant of enemy_death_trigger: not ordered after the resolver.
enemy_death_trigger_unordered ==
    /\ phase \in {"physics", "resolving", "commit", "death"}
    /\ lifestep = "idle"
    /\ DeathTriggerRun
    /\ lifestep' = "triggered"
    /\ UNCHANGED <<phase, armour, health, armourfx, removal, histVars>>
    /\ UNCHANGED poolVars
    /\ UNCHANGED runVars
    /\ UNCHANGED fxVars
    /\ UNCHANGED testVars

\* In the application the system is ordered after the resolver, not relative to the
\* commit.
enemy_death_trigger ==
    /\ phase \in {"commit", "death"}
    /\ lifestep = "idle"
    /\ DeathTriggerRun
    /\ lifestep' = "triggered"
    /\ UNCHANGED <<phase, armour, health, armourfx, removal, histVars>>
    /\ UNCHANGED poolVars
    /\ UNCHANGED runVars
    /\ UNCHANGED fxVars
    /\ UNCHANGED testVars

\* Ordered after enemy_death_trigger.
enemy_death_progress ==
    /\ phase \in {"commit", "death"}
    /\ lifestep = "triggered"
    /\ DeathProgressRun(FIXED_DELTA)
    /\ lifestep' = "done"
    /\ UNCHANGED <<phase, armour, health, armourfx, elayers, histVars>>
    /\ UNCHANGED poolVars
    /\ UNCHANGED runVars
    /\ UNCHANGED fxVars
    /\ UNCHANGED testVars

\* FixedPostUpdate has run all its systems.
end_tick ==
    /\ phase = "death"
    /\ lifestep = "done"
    /\ phase' = "fixed"
    /\ lifestep' = "idle"
    /\ UNCHANGED <<armour, health, armourfx, life, elayers, dying, removal, histVars>>
    /\ UNCHANGED poolVars
    /\ UNCHANGED runVars
    /\ UNCHANGED fxVars
    /\ UNCHANGED testVars

-----------------------------------------------------------------------------
(* PostUpdate: despawn_marked_enemies *)

\* Faulty variant of Despawn: the query has no With<PendingDespawn> filter.
Despawn_all(from, to) ==
    /\ phase = from
    /\ removal' = [e \in Enemies |-> "despawned"]
    /\ phase' = to
    /\ UNCHANGED <<armour, health, armourfx, life, elayers, dying, lifestep, histVars>>
    /\ UNCHANGED poolVars
    /\ UNCHANGED runVars
    /\ UNCHANGED fxVars
    /\ UNCHANGED testVars

\* The loop over With<PendingDespawn> and its queued despawns, applied when the
\* schedule ends.
Despawn(from, to) ==
    /\ phase = from
    /\ removal' = [e \in Enemies |-> IF removal[e] = "marked" THEN "despawned" ELSE removal[e]]
    /\ phase' = to
    /\ UNCHANGED <<armour, health, armourfx, life, elayers, dying, lifestep, histVars>>
    /\ UNCHANGED poolVars
    /\ UNCHANGED runVars
    /\ UNCHANGED fxVars
    /\ UNCHANGED testVars

\* msgs.update(): the older buffer is dropped and the newer one becomes the older.
Messages_update(c, reqs) ==
    LET all == c.read \o reqs
        kept == SubSeq(all, c.older + 1, Len(all))
        unread == IF Len(reqs) < Len(kept) THEN Len(reqs) ELSE Len(kept)
    IN [chan |-> [read |-> SubSeq(kept, 1, Len(kept) - unread), older |-> Len(kept)],
        requests |-> SubSeq(kept, Len(kept) - unread + 1, Len(kept))]

MessagesUpdate(from, to) ==
    /\ phase = from
    /\ LET r == Messages_update(chan, requests)
       IN /\ chan' = r.chan
          /\ requests' = r.requests
    /\ phase' = to
    /\ UNCHANGED <<capacity, free, bullets, res, histVars>>
    /\ UNCHANGED runVars
    /\ UNCHANGED enemyVars
    /\ UNCHANGED fxVars
    /\ UNCHANGED testVars

\* The two PostUpdate systems are not ordered relative to each other.
update_spawn_messages ==
    \/ MessagesUpdate("post", "despawn")
    \/ MessagesUpdate("messages", "fixed")

despawn_marked_enemies ==
    \/ Despawn("post", "messages")
    \/ Despawn("despawn", "fixed")

\* RunFixedMainLoop has no (more) tick to run in this frame.
end_fixed ==
    /\ phase = "fixed"
    /\ phase' = "aim"
    /\ UNCHANGED <<poolVars, histVars>>
    /\ UNCHANGED runVars
    /\ UNCHANGED enemyVars
    /\ UNCHANGED testVars
    /\ UNCHANGED fxVars

-----------------------------------------------------------------------------
(* The application *)

GlobalFxDefault ==
    [trauma |-> 0, flash |-> 0, hitstop |-> 0, slowmo_remaining |-> 0,
     slowmo_duration |-> 100, slowmo_min_speed |-> 220]

FxHandlesDefault == [camera |-> None, overlay |-> None, prev_shake_offset |-> Vec2ZERO]

\* No camera entity (headless), no overlay entity yet, the clock at normal rate.
ScreenDefault ==
    [camera_exists |-> FALSE, cam |-> Vec2ZERO,
     overlays |-> 0, overlay_visible |-> FALSE, overlay_alpha |-> 0, overlay_pos |-> Vec2ZERO]

\* No unit test of the newtypes is running.
NoProbe ==
    [test |-> "none", triggers |-> 0,
     start |-> 0, rate |-> 0, total |-> 0, rem |-> 0, value |-> 0, steps |-> 0]

\* No epoch-stamp resolver runs.
NoTwin == [epoch |-> 0, runs |-> 0, skipped |-> 0, stamp |-> <<>>, bullets |-> <<>>,
           armour |-> <<>>, health |-> <<>>]

InitFx ==
    /\ fx = GlobalFxDefault
    /\ handles = FxHandlesDefault
    /\ screen = ScreenDefault
    /\ speed = 1000
    /\ probe = NoProbe
    /\ twin = NoTwin

\* ArmourFx::new(initial_hits); the visual fields are not modelled.
ArmourFx_new(initial_hits) == [last_hits_remaining |-> initial_hits]

InitEnemies ==
    /\ armour = [e \in Enemies |-> [hits_remaining |-> INITIAL_ARMOUR, max_hits |-> INITIAL_ARMOUR]]
    /\ health = [e \in Enemies |-> INITIAL_HP]
    /\ armourfx = [e \in Enemies |-> ArmourFx_new(INITIAL_ARMOUR)]
    /\ life = [e \in Enemies |-> "Alive"]
    /\ elayers = [e \in Enemies |-> enemy_layers]
    /\ dying = [e \in Enemies |-> 0]
    /\ removal = [e \in Enemies |-> "none"]
    /\ lifestep = "idle"

Init ==
    /\ phase = "startup"
    /\ capacity \in 0..MaxCapacity
    /\ free = <<>>
    /\ bullets = <<>>
    /\ hist = <<>>
    /\ dropped = NoneDropped
    /\ requests = <<>>
    /\ chan = NoMessages
    /\ res = Resolved
    /\ seen = {}
    /\ marked = {}
    /\ nread = 0
    /\ InitEnemies
    /\ InitFx

Next ==
    \/ init_bullet_pool
    \/ collision_events
    \/ process_player_bullet_collisions
    \/ return_to_pool_commit
    \/ enemy_death_trigger
    \/ enemy_death_progress
    \/ end_tick
    \/ end_fixed
    \/ update_aim_in_window
    \/ request_player_bullets
    \/ allocate_bullets_from_pool
    \/ update_spawn_messages
    \/ despawn_marked_enemies

Spec == Init /\ [][Next]_vars

-----------------------------------------------------------------------------
(* The Update systems in InGame, where the camera and the player are spawned: the  *)
(* cursor inside or outside the window, and the aim computed before or after the   *)
(* producer runs (the two systems are not ordered).                                *)

update_aim_from_cursor ==
    \/ AimRun("aim", "update", Cursors \cup {NoVec2})
    \/ AimRun("lateaim", "allocate", Cursors \cup {NoVec2})

request_before_aim == Producer("aim", "lateaim")

NextInput ==
    \/ init_bullet_pool
    \/ end_fixed
    \/ update_aim_from_cursor
    \/ request_player_bullets
    \/ request_before_aim
    \/ allocate_bullets_from_pool
    \/ update_spawn_messages
    \/ despawn_marked_enemies

SpecInput == Init /\ [][NextInput]_vars

-----------------------------------------------------------------------------
(* The allocator and the commit run on their own (tests.rs, pooling unit tests):  *)
(* the pool is initialized, requests are written by hand, a record is marked      *)
(* PendingReturn by hand, and a system is run.                                    *)

UnitRequests ==
    { SpawnBulletRequest("Player", <<10, 20>>, <<100, 0>>, 2),
      SpawnBulletRequest("Enemy", <<0, 18>>, <<0, 900>>, 3) }

unit_pool_ready ==
    /\ phase = "fixed"
    /\ phase' = "unit"
    /\ UNCHANGED <<poolVars, histVars>>
    /\ UNCHANGED runVars
    /\ UNCHANGED enemyVars
    /\ UNCHANGED testVars
    /\ UNCHANGED fxVars

\* world.write_message(SpawnBulletRequest { .. })
write_spawn_request ==
    /\ phase = "unit"
    /\ Len(chan.read) + Len(requests) < MaxQueue
    /\ \E req \in UnitRequests : requests' = Append(requests, req)
    /\ UNCHANGED <<phase, capacity, free, bullets, chan, res, histVars>>
    /\ UNCHANGED runVars
    /\ UNCHANGED enemyVars
    /\ UNCHANGED testVars
    /\ UNCHANGED fxVars

\* *world.get_mut::<BulletState>(e) = BulletState::PendingReturn, on a record that has
\* spent any part of its bounce budget
mark_pending_return ==
    /\ phase = "unit"
    /\ \E e \in Handles, left \in {0, DEFAULT_WALL_BOUNCES} :
          /\ bullets[e].state = "Active"
          /\ bullets' = [bullets EXCEPT ![e].state = "PendingReturn",
                                        ![e].wall_bounces_left = left]
    /\ UNCHANGED <<phase, capacity, free, requests, chan, res, histVars>>
    /\ UNCHANGED runVars
    /\ UNCHANGED enemyVars
    /\ UNCHANGED testVars
    /\ UNCHANGED fxVars

unit_allocate == AllocatorRun("unit", "unit")

unit_commit == CommitRun("unit", "unit")

NextAlloc ==
    \/ init_bullet_pool
    \/ unit_pool_ready
    \/ write_spawn_request
    \/ unit_allocate
    \/ mark_pending_return
    \/ unit_commit

SpecAlloc == Init /\ [][NextAlloc]_vars

-----------------------------------------------------------------------------
(* The allocator run on a free list that other code has written to (BulletPool's   *)
(* free is a public Vec<Entity>): a handle of a record in any state, or of an      *)
(* entity that is no pooled bullet, is pushed by hand.                             *)

MaxPushed == 1        \* handles pushed by hand beyond the pool's own

push_any_handle ==
    /\ phase = "unit"
    /\ Len(free) < Len(bullets) + MaxPushed
    /\ \E e \in Handles \cup Enemies : free' = push_free(free, e)
    /\ UNCHANGED <<phase, capacity, bullets, requests, chan, res, histVars>>
    /\ UNCHANGED runVars
    /\ UNCHANGED enemyVars
    /\ UNCHANGED testVars
    /\ UNCHANGED fxVars

NextFault ==
    \/ init_bullet_pool
    \/ unit_pool_ready
    \/ write_spawn_request
    \/ push_any_handle
    \/ unit_allocate

SpecFault == Init /\ [][NextFault]_vars

-----------------------------------------------------------------------------
(* The fixed tick run on a hand-made world (tests.rs, collision system tests):    *)
(* Active records with any bounce budget, an enemy with any armour, messages      *)
(* written by hand, then resolver, commit and death trigger in schedule order.    *)

UNIT_MAX_ARMOUR == 2
UNIT_HP == 10

HandMade(i, budget) ==
    [state |-> "Active",
     damage |-> i,
     wall_bounces_left |-> budget,
     pos |-> Vec2ZERO,
     vel |-> Vec2ZERO,
     vis |-> "Visible",
     layers |-> active_bullet_layers]

InitResolver ==
    /\ phase = "tick"
    /\ capacity = MaxCapacity
    /\ free = <<>>
    /\ \E budget \in [1..MaxCapacity -> 0..DEFAULT_WALL_BOUNCES] :
          /\ bullets = [i \in 1..MaxCapacity |-> HandMade(i, budget[i])]
          /\ hist = [i \in 1..MaxCapacity |-> NewHist(HandMade(i, budget[i]))]
    /\ dropped = NoneDropped
    /\ requests = <<>>
    /\ chan = NoMessages
    /\ res = Resolved
    /\ seen = {}
    /\ marked = {}
    /\ nread = 0
    /\ \E hits \in 0..UNIT_MAX_ARMOUR :
          armour = [e \in Enemies |-> [hits_remaining |-> hits, max_hits |-> UNIT_MAX_ARMOUR]]
    /\ health = [e \in Enemies |-> UNIT_HP]
    /\ armourfx = [e \in Enemies |-> ArmourFx_new(armour[e].hits_remaining)]
    /\ life = [e \in Enemies |-> "Alive"]
    /\ elayers = [e \in Enemies |-> enemy_layers]
    /\ dying = [e \in Enemies |-> 0]
    /\ removal = [e \in Enemies |-> "none"]
    /\ lifestep = "idle"
    /\ InitFx

\* The messages a test writes: an Active record against a wall or an enemy that
\* still takes part in collisions, in either order, any number of times.
UnitFacts ==
    UNION { { CollisionStart(b, o, b, o), CollisionStart(o, b, o, b) } :
            <<b, o>> \in { p \in Handles \X (Walls \cup Enemies) :
                             /\ LayersOf(bullets, p[2]).filters # {}
                             /\ bullets[p[1]].state = "Active" } }

unit_resolve_begin == ResolveBegin("tick")

unit_resolve_message ==
    /\ phase = "resolving"
    /\ \E ev \in UnitFacts : ResolveStep(ev)

unit_death_trigger == DeathTrigger("tick")

NextResolver ==
    \/ unit_resolve_begin
    \/ unit_resolve_message
    \/ resolve_end
    \/ return_to_pool_commit
    \/ unit_death_trigger

SpecResolver == InitResolver /\ [][NextResolver]_vars

-----------------------------------------------------------------------------
(* The resolver on a hand-made world whose pooled bullets are in any state, with   *)
(* CollisionStart messages written by hand for any of them (a test spawns the      *)
(* record and injects the message itself, tests.rs:217-240).                       *)

\* A pooled bullet spawned by hand in state s, with the presence the pool gives it.
HandMadeIn(i, s) ==
    IF s = "Inactive" THEN [PooledRecord EXCEPT !.damage = i]
    ELSE [HandMade(i, DEFAULT_WALL_BOUNCES) EXCEPT !.state = s]

InitStale ==
    /\ phase = "tick"
    /\ capacity = MaxCapacity
    /\ free = <<>>
    /\ \E s \in [1..MaxCapacity -> {"Active", "Inactive", "PendingReturn"}] :
          /\ bullets = [i \in 1..MaxCapacity |-> HandMadeIn(i, s[i])]
          /\ hist = [i \in 1..MaxCapacity |-> NewHist(HandMadeIn(i, s[i]))]
    /\ dropped = NoneDropped
    /\ requests = <<>>
    /\ chan = NoMessages
    /\ res = Resolved
    /\ seen = {}
    /\ marked = {}
    /\ nread = 0
    /\ \E hits \in 0..UNIT_MAX_ARMOUR :
          armour = [e \in Enemies |-> [hits_remaining |-> hits, max_hits |-> UNIT_MAX_ARMOUR]]
    /\ health = [e \in Enemies |-> UNIT_HP]
    /\ armourfx = [e \in Enemies |-> ArmourFx_new(armour[e].hits_remaining)]
    /\ life = [e \in Enemies |-> "Alive"]
    /\ elayers = [e \in Enemies |-> enemy_layers]
    /\ dying = [e \in Enemies |-> 0]
    /\ removal = [e \in Enemies |-> "none"]
    /\ lifestep = "idle"
    /\ InitFx

\* The messages a test can write: any pooled bullet against a wall or an enemy.
AnyFacts ==
    UNION { { CollisionStart(b, o, b, o), CollisionStart(o, b, o, b) } :
            <<b, o>> \in Handles \X (Walls \cup Enemies) }

stale_resolve_message ==
    /\ phase = "resolving"
    /\ \E ev \in AnyFacts : ResolveStep(ev)

\* One run of the resolver and the commit that follows it.
NextStale ==
    \/ unit_resolve_begin
    \/ stale_resolve_message
    \/ resolve_end
    \/ return_to_pool_commit

SpecStale == InitStale /\ [][NextStale]_vars

-----------------------------------------------------------------------------
(* The resolver on hand-written messages of every shape: the two sides in either   *)
(* order, a contact shape with an owning body, a shape that is neither World nor   *)
(* Enemy, two bullets, no bullet, an entity that no longer exists, an enemy shape  *)
(* without Armour and Health. Next to the run, three more runs of the same loop are *)
(* kept in `twin`: on the messages with their sides swapped, on the messages       *)
(* without the ignored ones, and on the messages without the unresolvable ones.    *)

HITBOX == 211      \* a second collider with Enemy layers, Armour and Health of its own
BARE == 221        \* a collider with Enemy layers and neither Armour nor Health
GONE == 601        \* an entity that has been despawned

UnitBodies == Enemies \cup {HITBOX}

\* The bullet sides of a message, and the other sides: (collider, body)
BulletSides == { CollisionTarget(h, h) : h \in Handles }

OtherSides ==
    { CollisionTarget(w, w) : w \in Walls }
        \cup { CollisionTarget(e, b) : e \in UnitBodies, b \in Enemies \cup {None} }
        \cup { CollisionTarget(w, e) : w \in Walls, e \in Enemies }
        \cup { CollisionTarget(BARE, None), CollisionTarget(PLAYER, PLAYER),
               CollisionTarget(GONE, None) }

\* Messages with a bullet on at least one side, and the wall against an enemy.
TestFacts ==
    { CollisionStart(s1.collider, s2.collider, s1.body, s2.body) :
        <<s1, s2>> \in (BulletSides \X (BulletSides \cup OtherSides))
                         \cup (OtherSides \X BulletSides)
                         \cup { <<CollisionTarget(w, w), CollisionTarget(e, e)>> :
                                  w \in Walls, e \in Enemies }
                         \cup { <<CollisionTarget(e, e), CollisionTarget(w, w)>> :
                                  w \in Walls, e \in Enemies } }

\* the same message with the two sides reported in the other order
Swap(ev) == CollisionStart(ev.collider2, ev.collider1, ev.body2, ev.body1)

\* exactly one of the two colliders is a pooled bullet
OneBullet(ev) == is_pooled_bullet(ev.collider1) # is_pooled_bullet(ev.collider2)

\* the bullet of a one-bullet message
BulletOf(ev) == IF is_pooled_bullet(ev.collider1) THEN ev.collider1 ELSE ev.collider2

\* the side of a one-bullet message that is not the bullet
OtherSide(ev) ==
    IF is_pooled_bullet(ev.collider1) THEN targets(ev)[2] ELSE targets(ev)[1]

\* A message the resolver is to ignore: not exactly one pooled bullet (two colliders
\* that are the same bullet included), or the other side neither World nor Enemy.
Ignored(ev) ==
    \/ ~OneBullet(ev)
    \/ /\ HasLayers(OtherSide(ev).collider)
       /\ ~is_in_layer(LayersOf(bullets, OtherSide(ev).collider), "World")
       /\ ~is_in_layer(LayersOf(bullets, OtherSide(ev).collider), "Enemy")

\* A one-bullet message that cannot be resolved: the other side has no layers (it
\* no longer exists), or it is an enemy shape whose owner has no Armour or no Health.
Unresolvable(ev) ==
    /\ ~Ignored(ev)
    /\ \/ ~HasLayers(OtherSide(ev).collider)
       \/ /\ ~is_in_layer(LayersOf(bullets, OtherSide(ev).collider), "World")
          /\ is_in_layer(LayersOf(bullets, OtherSide(ev).collider), "Enemy")
          /\ \/ gameplay_owner(OtherSide(ev)) \notin DOMAIN armour
             \/ gameplay_owner(OtherSide(ev)) \notin DOMAIN health

InitFacts ==
    /\ phase = "tick"
    /\ capacity = MaxCapacity
    /\ free = <<>>
    /\ bullets = [i \in 1..MaxCapacity |-> HandMade(i, i)]
    /\ hist = [i \in 1..MaxCapacity |-> NewHist(HandMade(i, i))]
    /\ dropped = NoneDropped
    /\ requests = <<>>
    /\ chan = NoMessages
    /\ res = Resolved
    /\ seen = {}
    /\ marked = {}
    /\ nread = 0
    /\ \E hits \in 0..1 :
          armour = [e \in UnitBodies |->
                      [hits_remaining |-> hits, max_hits |-> UNIT_MAX_ARMOUR]]
    /\ health = [e \in UnitBodies |-> UNIT_HP]
    /\ armourfx = [e \in Enemies |-> ArmourFx_new(armour[e].hits_remaining)]
    /\ life = [e \in Enemies |-> "Alive"]
    /\ elayers = [e \in UnitBodies \cup {BARE} |-> enemy_layers]
    /\ dying = [e \in Enemies |-> 0]
    /\ removal = [e \in Enemies |-> "none"]
    /\ lifestep = "idle"
    /\ fx = GlobalFxDefault
    /\ handles = FxHandlesDefault
    /\ screen = ScreenDefault
    /\ speed = 1000
    /\ probe = NoProbe
    /\ twin = [last |-> <<>>, swapped |-> RunState, pruned |-> RunState,
               resolvable |-> RunState]

\* What a resolver run leaves behind: the records (budgets included), the armour, the
\* health, and the bullets it has queued for return.
Outcome(st) ==
    [bullets |-> st.bullets, armour |-> st.armour, health |-> st.health,
     marked |-> st.marked]

\* One message read by the run and by the three runs beside it: one that reads the
\* list with the sides of some messages exchanged, one that reads the list without
\* the ignored messages, one that reads it without the unresolvable messages.
fact_resolve_message ==
    /\ phase = "resolving"
    /\ \E ev \in TestFacts, sw \in BOOLEAN :
          /\ ResolveWrites(ev)
          /\ twin' = [last |-> <<ev>>,
                      swapped |-> ResolveFact(twin.swapped, IF sw THEN Swap(ev) ELSE ev),
                      pruned |-> IF Ignored(ev) THEN twin.pruned
                                 ELSE ResolveFact(twin.pruned, ev),
                      resolvable |-> IF Unresolvable(ev) THEN twin.resolvable
                                     ELSE ResolveFact(twin.resolvable, ev)]
    /\ UNCHANGED probe

\* One run of the resolver and the commit that follows it.
NextFacts ==
    \/ unit_resolve_begin
    \/ fact_resolve_message
    \/ resolve_end
    \/ return_to_pool_commit

SpecFacts == InitFacts /\ [][NextFacts]_vars

-----------------------------------------------------------------------------
(* The two de-dup variants side by side: the set-based resolver of collision.rs    *)
(* on the world, and the epoch-stamp resolver (CollisionEpoch, CollisionStamp) on  *)
(* its own copy, both reading the same messages, tick after tick.                  *)

EpochBits == 2                    \* width of CollisionEpoch in the model (u32 in the code)
EpochModulus == 2 ^ EpochBits
MaxRuns == 4                      \* resolver runs: at this width, up to the first reuse of
                                  \* an epoch value

\* The epoch-stamp resolver's loop body for one CollisionStart message.
EpochResolveFact(tw, ev) ==
    LET t == targets(ev)
        sides == IF is_pooled_bullet(t[1].collider) THEN <<t[1], t[2]>>
                 ELSE IF is_pooled_bullet(t[2].collider) THEN <<t[2], t[1]>>
                 ELSE <<>>
    IN IF sides = <<>> THEN tw
       ELSE LET b == sides[1].collider
                other_side == sides[2]
                other_layers == LayersOf(bullets, other_side.collider)
                enemy_entity == gameplay_owner(other_side)
                tw1 == [tw EXCEPT !.stamp[b] = tw.epoch]
                left == saturating_sub(tw.bullets[b].wall_bounces_left, 1)
            IN IF tw.stamp[b] = tw.epoch THEN [tw EXCEPT !.skipped = @ + 1]
               ELSE IF tw.bullets[b].state # "Active" THEN tw1
               ELSE IF ~HasLayers(other_side.collider) THEN tw1
               ELSE IF is_in_layer(other_layers, "World")
               THEN [tw1 EXCEPT !.bullets[b].wall_bounces_left = left,
                                !.bullets[b].state = IF left = 0 THEN "PendingReturn" ELSE @]
               ELSE IF is_in_layer(other_layers, "Enemy")
               THEN IF tw.armour[enemy_entity].hits_remaining > 0
                    THEN [tw1 EXCEPT !.armour[enemy_entity].hits_remaining =
                                         saturating_sub(@, 1)]
                    ELSE [tw1 EXCEPT !.health[enemy_entity] = @ - tw.bullets[b].damage,
                                     !.bullets[b].state = "PendingReturn"]
               ELSE tw1

\* What the epoch-stamp resolver reads and writes of a record.
TwinRecord(b) ==
    [state |-> b.state, damage |-> b.damage, wall_bounces_left |-> b.wall_bounces_left]

InitDedup ==
    /\ phase = "tick"
    /\ capacity = MaxCapacity
    /\ free = <<>>
    /\ bullets = [i \in 1..MaxCapacity |-> HandMade(i, DEFAULT_WALL_BOUNCES)]
    /\ hist = [i \in 1..MaxCapacity |-> NewHist(HandMade(i, DEFAULT_WALL_BOUNCES))]
    /\ dropped = NoneDropped
    /\ requests = <<>>
    /\ chan = NoMessages
    /\ res = Resolved
    /\ seen = {}
    /\ marked = {}
    /\ nread = 0
    /\ \E hits \in 0..UNIT_MAX_ARMOUR :
          armour = [e \in Enemies |-> [hits_remaining |-> hits, max_hits |-> UNIT_MAX_ARMOUR]]
    /\ health = [e \in Enemies |-> UNIT_HP]
    /\ armourfx = [e \in Enemies |-> ArmourFx_new(armour[e].hits_remaining)]
    /\ life = [e \in Enemies |-> "Alive"]
    /\ elayers = [e \in Enemies |-> enemy_layers]
    /\ dying = [e \in Enemies |-> 0]
    /\ removal = [e \in Enemies |-> "none"]
    /\ lifestep = "idle"
    /\ fx = GlobalFxDefault
    /\ handles = FxHandlesDefault
    /\ screen = ScreenDefault
    /\ speed = 1000
    /\ probe = NoProbe
    /\ twin = [epoch |-> 0, runs |-> 0, skipped |-> 0,
               stamp |-> [i \in 1..MaxCapacity |-> 0],
               bullets |-> [i \in 1..MaxCapacity |-> TwinRecord(bullets[i])],
               armour |-> armour,
               health |-> health]

\* Both resolvers start a run: seen.clear() in one, the epoch incremented in the other.
dedup_resolve_begin ==
    /\ phase = "tick"
    /\ twin.runs < MaxRuns
    /\ phase' = "resolving"
    /\ seen' = {}
    /\ marked' = {}
    /\ nread' = 0
    /\ twin' = [twin EXCEPT !.epoch = (@ + 1) % EpochModulus, !.runs = @ + 1, !.skipped = 0]
    /\ UNCHANGED poolVars
    /\ UNCHANGED histVars
    /\ UNCHANGED enemyVars
    /\ UNCHANGED fxVars
    /\ UNCHANGED probe

\* Both resolvers read the same message.
dedup_resolve_message ==
    /\ phase = "resolving"
    /\ \E ev \in UnitFacts :
          /\ ResolveWrites(ev)
          /\ twin' = EpochResolveFact(twin, ev)
    /\ UNCHANGED probe

\* The commit on the epoch-stamp resolver's copy.
dedup_commit ==
    /\ phase = "death"
    /\ phase' = "tick"
    /\ twin' = [twin EXCEPT !.bullets =
                   [i \in DOMAIN @ |-> IF @[i].state = "PendingReturn"
                                       THEN [@[i] EXCEPT !.state = "Inactive"] ELSE @[i]]]
    /\ UNCHANGED <<poolVars, histVars>>
    /\ UNCHANGED runVars
    /\ UNCHANGED enemyVars
    /\ UNCHANGED fxVars
    /\ UNCHANGED probe

NextDedup ==
    \/ dedup_resolve_begin
    \/ dedup_resolve_message
    \/ resolve_end
    \/ return_to_pool_commit
    \/ dedup_commit

SpecDedup == InitDedup /\ [][NextDedup]_vars

-----------------------------------------------------------------------------
(* Global effects: GlobalFx, FxHandles, apply_global_fx.                          *)
(* Fixed point: seconds * 100 (so 0.09 s = 9), unit intensities and the playback  *)
(* rate * 1000.                                                                   *)

Clamp(v, lo, hi) == IF v < lo THEN lo ELSE IF v > hi THEN hi ELSE v

\* UnitF32
UnitF32_new_clamped(v) == Clamp(v, 0, 1000)
UnitF32_add_clamped(u, dv) == Clamp(u + dv, 0, 1000)
UnitF32_decay_to_zero(u, rate_per_sec, dt) == Max(u - rate_per_sec * dt, 0)

\* RealSeconds
RealSeconds_new(v) == Max(v, 0)
\* Faulty variant of RealSeconds_set_max: the countdown is overwritten.
RealSeconds_set_max_assign(r, v) == Max(v, 0)

RealSeconds_set_max(r, v) == Max(r, Max(v, 0))
\* Faulty variant of RealSeconds_tick_down: the countdown is not floored at zero.
RealSeconds_tick_down_unfloored(r, dt) == r - dt

RealSeconds_tick_down(r, dt) == Max(r - dt, 0)
RealSeconds_is_positive(r) == r > 0

HITSTOP == 9            \* 0.09 s
SLOWMO_DURATION == 100  \* 1.0 s
SLOWMO_MIN_SPEED == 220 \* 0.22
TRAUMA_ADD == 950       \* 0.95
TRAUMA_DECAY == 9       \* 0.9 per second, in thousandths per 10 ms
FLASH_DECAY == 30       \* 3.0 per second
SHAKE_AMP == 42
FLASH_EPS == 1          \* 0.001
FLASH_ALPHA == 850      \* 0.85
OVERLAY == 301

trigger_armour_break(f) ==
    LET duration == RealSeconds_new(SLOWMO_DURATION)
    IN [f EXCEPT
          !.trauma = UnitF32_add_clamped(@, TRAUMA_ADD),
          !.flash = UnitF32_new_clamped(1000),
          !.hitstop = RealSeconds_set_max(@, HITSTOP),
          !.slowmo_duration = duration,
          !.slowmo_remaining = RealSeconds_set_max(@, duration),
          !.slowmo_min_speed = SLOWMO_MIN_SPEED]

\* x^3 (x (6x - 15) + 10) on thousandths
smootherstep(x) ==
    LET inner == (x * (x * 6 - 15000)) \div 1000 + 10000
        cube == (((x * x) \div 1000) * x) \div 1000
    IN (cube * inner) \div 1000

\* Faulty variant of TimeControl: slow-motion is tested before hit-stop.
TimeControl_slowfirst(f, dt) ==
    IF RealSeconds_is_positive(f.slowmo_remaining)
    THEN LET rem == RealSeconds_tick_down(f.slowmo_remaining, dt)
             dur == Max(f.slowmo_duration, 1)
             progress == 1000 - Clamp((rem * 1000) \div dur, 0, 1000)
             eased == smootherstep(progress)
             min == Clamp(f.slowmo_min_speed, 0, 1000)
         IN [fx |-> [f EXCEPT !.slowmo_remaining = rem],
             speed |-> min + ((1000 - min) * eased) \div 1000]
    ELSE IF RealSeconds_is_positive(f.hitstop)
    THEN [fx |-> [f EXCEPT !.hitstop = RealSeconds_tick_down(@, dt)], speed |-> 0]
    ELSE [fx |-> f, speed |-> 1000]

\* Faulty variant of TimeControl: the hit-stop is not counted down.
TimeControl_frozen(f, dt) ==
    IF RealSeconds_is_positive(f.hitstop) THEN [fx |-> f, speed |-> 0]
    ELSE TimeControl_slowfirst(f, dt)

\* The TIME CONTROL section: the new GlobalFx and the relative speed it sets.
TimeControl(f, dt) ==
    IF RealSeconds_is_positive(f.hitstop)
    THEN [fx |-> [f EXCEPT !.hitstop = RealSeconds_tick_down(@, dt)], speed |-> 0]
    ELSE IF RealSeconds_is_positive(f.slowmo_remaining)
    THEN LET rem == RealSeconds_tick_down(f.slowmo_remaining, dt)
             dur == Max(f.slowmo_duration, 1)
             progress == 1000 - Clamp((rem * 1000) \div dur, 0, 1000)
             eased == smootherstep(progress)
             min == Clamp(f.slowmo_min_speed, 0, 1000)
         IN [fx |-> [f EXCEPT !.slowmo_remaining = rem],
             speed |-> min + ((1000 - min) * eased) \div 1000]
    ELSE [fx |-> f, speed |-> 1000]

\* The pseudo-noise direction: a function of the accumulated shake phase, any
\* vector of length at most one.
Noise == {<<1, 0>>, <<0, -1>>, <<0, 0>>}

ShakeOffset(trauma, noise) ==
    LET strength == (trauma * trauma) \div 1000
        amp == (SHAKE_AMP * strength) \div 1000
    IN Scale(noise, amp)

Sub(v, w) == <<v[1] - w[1], v[2] - w[2]>>

\* Faulty variant of ensure_fx_handles: the overlay is spawned whenever the early
\* return is not taken, whether or not its handle is cached.
ensure_fx_handles_respawn ==
    /\ phase = "ensure"
    /\ IF handles.camera # None /\ handles.overlay # None
       THEN UNCHANGED <<handles, screen>>
       ELSE /\ handles' = [handles EXCEPT
                  !.camera = IF @ = None /\ screen.camera_exists THEN CAMERA ELSE @,
                  !.overlay = OVERLAY]
            /\ screen' = [screen EXCEPT !.overlays = @ + 1]
    /\ phase' = "apply"
    /\ UNCHANGED <<fx, speed, histVars>>
    /\ UNCHANGED poolVars
    /\ UNCHANGED runVars
    /\ UNCHANGED enemyVars
    /\ UNCHANGED testVars

\* ensure_fx_handles
ensure_fx_handles ==
    /\ phase = "ensure"
    /\ IF handles.camera # None /\ handles.overlay # None
       THEN UNCHANGED <<handles, screen>>
       ELSE /\ handles' = [handles EXCEPT
                  !.camera = IF @ = None /\ screen.camera_exists THEN CAMERA ELSE @,
                  !.overlay = IF @ = None THEN OVERLAY ELSE @]
            /\ screen' = [screen EXCEPT
                  !.overlays = IF handles.overlay = None /\ @ # 1 THEN @ + 1 ELSE @]
    /\ phase' = "apply"
    /\ UNCHANGED <<fx, speed, histVars>>
    /\ UNCHANGED poolVars
    /\ UNCHANGED runVars
    /\ UNCHANGED enemyVars
    /\ UNCHANGED testVars

\* apply_global_fx with handles resolved, for a real delta dt and a noise direction
ApplyResolved(dt, noise) ==
    LET tc == TimeControl(fx, dt)
        trauma == UnitF32_decay_to_zero(tc.fx.trauma, TRAUMA_DECAY, dt)
        flash == UnitF32_decay_to_zero(tc.fx.flash, FLASH_DECAY, dt)
        offset == IF trauma > 0 THEN ShakeOffset(trauma, noise) ELSE Vec2ZERO
        cam == Add(Sub(screen.cam, handles.prev_shake_offset), offset)
    IN /\ fx' = [tc.fx EXCEPT !.trauma = trauma, !.flash = flash]
       /\ speed' = tc.speed
       /\ handles' = [handles EXCEPT !.prev_shake_offset = offset]
       /\ screen' = [screen EXCEPT
             !.cam = cam,
             !.overlay_pos = cam,
             !.overlay_visible = (flash > FLASH_EPS),
             !.overlay_alpha = IF flash > FLASH_EPS
                               THEN Clamp((flash * FLASH_ALPHA) \div 1000, 0, FLASH_ALPHA)
                               ELSE @]

DTs == {1, 4}     \* real frame times: 10 ms and 40 ms

\* Faulty variant of ApplyBody: no early return on an unresolved handle.
ApplyBody_unguarded(dts) ==
    \E dt \in dts, noise \in Noise : ApplyResolved(dt, noise)

\* apply_global_fx for a real delta of dts
ApplyBody(dts) ==
    \E dt \in dts, noise \in Noise :
        IF handles.camera = None \/ handles.overlay = None
        THEN UNCHANGED fxVars
        ELSE ApplyResolved(dt, noise)

ApplyRun(to, dts) ==
    /\ phase = "apply"
    /\ ApplyBody(dts)
    /\ phase' = to
    /\ UNCHANGED histVars
    /\ UNCHANGED poolVars
    /\ UNCHANGED runVars
    /\ UNCHANGED enemyVars
    /\ UNCHANGED testVars

apply_global_fx == ApplyRun("fxtick", DTs)

\* armour_fx_update sees an armour break in this fixed tick
armour_break ==
    /\ phase = "fxtick"
    /\ fx' = trigger_armour_break(fx)
    /\ UNCHANGED <<phase, handles, screen, speed, histVars>>
    /\ UNCHANGED poolVars
    /\ UNCHANGED runVars
    /\ UNCHANGED enemyVars
    /\ UNCHANGED testVars

\* the frame reaches PostUpdate
PostUpdate(from) ==
    /\ phase = from
    /\ phase' = "ensure"
    /\ UNCHANGED <<fxVars, histVars>>
    /\ UNCHANGED poolVars
    /\ UNCHANGED runVars
    /\ UNCHANGED enemyVars
    /\ UNCHANGED testVars

post_update == PostUpdate("fxtick")

InitSpecFx ==
    /\ phase = "fxtick"
    /\ capacity = 0
    /\ free = <<>>
    /\ bullets = <<>>
    /\ hist = <<>>
    /\ dropped = NoneDropped
    /\ requests = <<>>
    /\ chan = NoMessages
    /\ res = Resolved
    /\ seen = {}
    /\ marked = {}
    /\ nread = 0
    /\ InitEnemies
    /\ fx = GlobalFxDefault
    /\ handles = FxHandlesDefault
    /\ \E c \in BOOLEAN : screen = [ScreenDefault EXCEPT !.camera_exists = c]
    /\ speed = 1000
    /\ probe = NoProbe
    /\ twin = NoTwin

NextFx ==
    \/ armour_break
    \/ post_update
    \/ ensure_fx_handles
    \/ apply_global_fx

SpecFx == InitSpecFx /\ [][NextFx]_vars

-----------------------------------------------------------------------------
(* FixedPostUpdate with armour_fx_update, on a hand-made world: bullets of any     *)
(* damage against an armoured enemy; resolver, commit, death trigger, armour      *)
(* effects and death progress run in the order the plugin gives them.             *)

\* trigger_armour_break called n times
RECURSIVE trigger_times(_, _)
trigger_times(f, n) == IF n = 0 THEN f ELSE trigger_times(trigger_armour_break(f), n - 1)

\* Faulty variant of ArmourFxRun: the break also stops the virtual clock itself.
ArmourFxRun_stop ==
    LET alive == { e \in Unmarked : life[e] = "Alive" }
        breaks == { e \in alive : /\ armour[e].hits_remaining = 0
                                  /\ armourfx[e].last_hits_remaining > 0 }
    IN /\ armourfx' = [e \in Enemies |->
                         IF e \in alive
                         THEN [armourfx[e] EXCEPT
                                 !.last_hits_remaining = armour[e].hits_remaining]
                         ELSE armourfx[e]]
       /\ fx' = trigger_times(fx, Cardinality(breaks))
       /\ probe' = [probe EXCEPT !.triggers = @ + Cardinality(breaks)]
       /\ speed' = IF breaks # {} THEN 0 ELSE speed
       /\ UNCHANGED <<handles, screen>>

\* The loop of armour_fx_update, as far as it reads Armour and writes GlobalFx;
\* GlobalFx is the only resource the system can write.
ArmourFxRun ==
    LET alive == { e \in Unmarked : life[e] = "Alive" }
        breaks == { e \in alive : /\ armour[e].hits_remaining < armourfx[e].last_hits_remaining
                                  /\ armour[e].hits_remaining = 0
                                  /\ armourfx[e].last_hits_remaining > 0 }
    IN /\ armourfx' = [e \in Enemies |->
                         IF e \in alive
                         THEN [armourfx[e] EXCEPT
                                 !.last_hits_remaining = armour[e].hits_remaining]
                         ELSE armourfx[e]]
       /\ fx' = trigger_times(fx, Cardinality(breaks))
       /\ probe' = [probe EXCEPT !.triggers = @ + Cardinality(breaks)]
       /\ UNCHANGED <<handles, screen, speed>>

InitBreak ==
    /\ phase = "tick"
    /\ capacity = MaxCapacity
    /\ free = <<>>
    /\ \E damage \in [1..MaxCapacity -> {REQUEST_DAMAGE, UNIT_HP}] :
          /\ bullets = [i \in 1..MaxCapacity |->
                          [HandMade(i, DEFAULT_WALL_BOUNCES) EXCEPT !.damage = damage[i]]]
          /\ hist = [i \in 1..MaxCapacity |-> NewHist(bullets[i])]
    /\ dropped = NoneDropped
    /\ requests = <<>>
    /\ chan = NoMessages
    /\ res = Resolved
    /\ seen = {}
    /\ marked = {}
    /\ nread = 0
    /\ \E hits \in 0..UNIT_MAX_ARMOUR :
          armour = [e \in Enemies |-> [hits_remaining |-> hits, max_hits |-> UNIT_MAX_ARMOUR]]
    /\ health = [e \in Enemies |-> UNIT_HP]
    /\ armourfx = [e \in Enemies |-> ArmourFx_new(armour[e].hits_remaining)]
    /\ life = [e \in Enemies |-> "Alive"]
    /\ elayers = [e \in Enemies |-> enemy_layers]
    /\ dying = [e \in Enemies |-> 0]
    /\ removal = [e \in Enemies |-> "none"]
    /\ lifestep = "idle"
    /\ fx = GlobalFxDefault
    /\ handles = FxHandlesDefault
    /\ screen = [ScreenDefault EXCEPT !.camera_exists = TRUE]
    /\ speed = 1000
    /\ probe = NoProbe
    /\ twin = NoTwin

break_death_trigger == DeathTrigger("armourfx")

armour_fx_update ==
    /\ phase = "armourfx"
    /\ ArmourFxRun
    /\ phase' = "progress"
    /\ UNCHANGED <<armour, health, life, elayers, dying, removal, lifestep, histVars, twin>>
    /\ UNCHANGED poolVars
    /\ UNCHANGED runVars

break_death_progress ==
    /\ phase = "progress"
    /\ DeathProgressRun(FIXED_DELTA)
    /\ phase' = "tick"
    /\ UNCHANGED <<armour, health, armourfx, elayers, lifestep, histVars>>
    /\ UNCHANGED poolVars
    /\ UNCHANGED runVars
    /\ UNCHANGED fxVars
    /\ UNCHANGED testVars

NextBreak ==
    \/ unit_resolve_begin
    \/ unit_resolve_message
    \/ resolve_end
    \/ return_to_pool_commit
    \/ break_death_trigger
    \/ armour_fx_update
    \/ break_death_progress

SpecBreak == InitBreak /\ [][NextBreak]_vars

\* The same world with frames: after any number of fixed ticks the frame reaches
\* PostUpdate, where ensure_fx_handles and apply_global_fx run.
frame_post_update == PostUpdate("tick")

\* a steady, slow frame time: 200 ms
FrameDTs == {20}

frame_apply_global_fx == ApplyRun("tick", FrameDTs)

\* One hit of armour left, every bullet with the damage of a request.
InitFrame ==
    /\ InitBreak
    /\ \A e \in Enemies : armour[e].hits_remaining = 1
    /\ \A i \in 1..MaxCapacity : bullets[i].damage = REQUEST_DAMAGE

NextFrame ==
    \/ NextBreak
    \/ frame_post_update
    \/ ensure_fx_handles
    \/ frame_apply_global_fx

SpecFrame == InitFrame /\ [][NextFrame]_vars

-----------------------------------------------------------------------------
(* The same world under the frame loop of the engine. Time<Virtual> advances by the *)
(* real frame time multiplied by the relative speed that apply_global_fx set in    *)
(* the frame before; RunFixedMainLoop adds that to the overstep of Time<Fixed> and *)
(* runs one fixed tick for every FIXED_DELTA it holds, so a frame at speed 0 runs  *)
(* none. The overstep is kept in probe.value, in units of 10 us; probe.steps       *)
(* records that a frame began at speed 0 while an enemy was Dying.                 *)

TickCost == FIXED_DELTA * 1000

\* First / RunFixedMainLoop: the clocks advance.
life_begin_frame ==
    /\ phase = "frame"
    /\ \E dt \in FrameDTs :
          probe' = [probe EXCEPT
                      !.value = @ + dt * speed,
                      !.steps = IF speed = 0 /\ \E e \in Enemies : life[e] = "Dying"
                                THEN 1 ELSE @]
    /\ phase' = "tick"
    /\ UNCHANGED <<twin, fxVars, histVars>>
    /\ UNCHANGED poolVars
    /\ UNCHANGED runVars
    /\ UNCHANGED enemyVars

\* RunFixedMainLoop: the overstep holds one more tick.
life_fixed_tick ==
    /\ phase = "tick"
    /\ probe.value >= TickCost
    /\ probe' = [probe EXCEPT !.value = @ - TickCost]
    /\ phase' = "run"
    /\ UNCHANGED <<twin, fxVars, histVars>>
    /\ UNCHANGED poolVars
    /\ UNCHANGED runVars
    /\ UNCHANGED enemyVars

life_resolve_begin == ResolveBegin("run")

\* RunFixedMainLoop has no (more) tick to run: the frame goes on to PostUpdate.
life_post_update ==
    /\ probe.value < TickCost
    /\ PostUpdate("tick")

\* The messages of a tick: Active bullets touching enemies that still interact.
LifeFacts ==
    { CollisionStart(b, e, b, e) :
        <<b, e>> \in { p \in Handles \X Enemies :
                         /\ LayersOf(bullets, p[2]).filters # {}
                         /\ bullets[p[1]].state = "Active" } }

life_resolve_message ==
    /\ phase = "resolving"
    /\ \E ev \in LifeFacts : ResolveStep(ev)

life_apply_global_fx == ApplyRun("cleanup", FrameDTs)

life_despawn_marked_enemies == Despawn("cleanup", "frame")

\* An enemy with one hit of armour left, the first bullet with the damage of a
\* request and the others lethal; with a camera, or headless.
InitLife ==
    /\ phase = "tick"
    /\ capacity = MaxCapacity
    /\ free = <<>>
    /\ bullets = [i \in 1..MaxCapacity |->
                    [HandMade(i, DEFAULT_WALL_BOUNCES) EXCEPT
                        !.damage = IF i = 1 THEN REQUEST_DAMAGE ELSE UNIT_HP]]
    /\ hist = [i \in 1..MaxCapacity |-> NewHist(bullets[i])]
    /\ dropped = NoneDropped
    /\ requests = <<>>
    /\ chan = NoMessages
    /\ res = Resolved
    /\ seen = {}
    /\ marked = {}
    /\ nread = 0
    /\ armour = [e \in Enemies |-> [hits_remaining |-> 1, max_hits |-> UNIT_MAX_ARMOUR]]
    /\ health = [e \in Enemies |-> UNIT_HP]
    /\ armourfx = [e \in Enemies |-> ArmourFx_new(armour[e].hits_remaining)]
    /\ life = [e \in Enemies |-> "Alive"]
    /\ elayers = [e \in Enemies |-> enemy_layers]
    /\ dying = [e \in Enemies |-> 0]
    /\ removal = [e \in Enemies |-> "none"]
    /\ lifestep = "idle"
    /\ fx = GlobalFxDefault
    /\ handles = FxHandlesDefault
    /\ \E c \in BOOLEAN : screen = [ScreenDefault EXCEPT !.camera_exists = c]
    /\ speed = 1000
    /\ probe = NoProbe
    /\ twin = NoTwin

NextLife ==
    \/ life_begin_frame
    \/ life_fixed_tick
    \/ life_resolve_begin
    \/ life_resolve_message
    \/ resolve_end
    \/ return_to_pool_commit
    \/ break_death_trigger
    \/ armour_fx_update
    \/ break_death_progress
    \/ life_post_update
    \/ ensure_fx_handles
    \/ life_apply_global_fx
    \/ life_despawn_marked_enemies

SpecLife == InitLife /\ [][NextLife]_vars

\* The app runner runs frame after frame, and in a frame every schedule runs every
\* system it holds: whatever step of the loop is enabled is eventually taken.
FairLife == SpecLife /\ WF_vars(NextLife)

-----------------------------------------------------------------------------
(* The unit tests of the effect state (enemies/tests.rs): a GlobalFx value built by
   hand, to which the trigger is applied some number of times, and a UnitF32 decayed
   in sub-steps.

   The decay test works on binary floating point as f32 does: a value is a whole
   number of quanta of 2^-FracBits with at most MantissaBits significant bits, and
   every product and difference is rounded to the nearest such value, ties to even.
   f32 is the same format with 24 significant bits. *)

RECURSIVE BitLen(_)
BitLen(n) == IF n = 0 THEN 0 ELSE 1 + BitLen(n \div 2)

RECURSIVE Pow2(_)
Pow2(k) == IF k = 0 THEN 1 ELSE 2 * Pow2(k - 1)

\* y rounded to a multiple of 2^k, ties to even
RoundTo(y, k) ==
    IF k = 0 THEN y
    ELSE LET q == y \div Pow2(k)
             r == y % Pow2(k)
             half == Pow2(k - 1)
             up == r > half \/ (r = half /\ q % 2 = 1)
         IN (IF up THEN q + 1 ELSE q) * Pow2(k)

\* a * b of two values in quanta, rounded to the format
f32_mul(a, b) ==
    LET y == a * b     \* in units of 2^-(2 FracBits)
    IN RoundTo(y, Max(FracBits, BitLen(y) - MantissaBits)) \div Pow2(FracBits)

\* a - b for a >= b, rounded to the format
f32_sub(a, b) == RoundTo(a - b, Max(0, BitLen(a - b) - MantissaBits))

\* Faulty variant of decay_to_zero_f32: the decay grows with the square of the step.
decay_to_zero_f32_squared(v, rate, dt) ==
    LET d == f32_mul(rate, f32_mul(dt, dt))
    IN IF d >= v THEN 0 ELSE f32_sub(v, d)

\* (self.0 - rate_per_sec * dt).max(0.0)
decay_to_zero_f32(v, rate, dt) ==
    LET d == f32_mul(rate, dt)
    IN IF d >= v THEN 0 ELSE f32_sub(v, d)

\* The values of the format in [0, 1], in quanta
F32Unit == { x \in 0..Pow2(FracBits) : RoundTo(x, Max(0, BitLen(x) - MantissaBits)) = x }

\* Decay rates of the test: 0, 0.75, 1.0 and 2.5 per second
Rates == { 0, 3 * Pow2(FracBits - 2), Pow2(FracBits), 5 * Pow2(FracBits - 1) }

\* One unit in the last place of 1.0
Ulp == Pow2(FracBits - MantissaBits + 1)

\* The effect states a test starts from: the default, and values with effects
\* running, some of them beyond what one trigger presets.
FxValues ==
    [trauma : {0, 500, 1000}, flash : {0, 1000}, hitstop : {0, 5, 20},
     slowmo_remaining : {0, 50, 150}, slowmo_duration : {SLOWMO_DURATION, 200},
     slowmo_min_speed : {SLOWMO_MIN_SPEED}]

InitNewtypes ==
    /\ phase = "test"
    /\ capacity = 0
    /\ free = <<>>
    /\ bullets = <<>>
    /\ hist = <<>>
    /\ dropped = NoneDropped
    /\ requests = <<>>
    /\ chan = NoMessages
    /\ res = Resolved
    /\ seen = {}
    /\ marked = {}
    /\ nread = 0
    /\ InitEnemies
    /\ handles = FxHandlesDefault
    /\ screen = ScreenDefault
    /\ speed = 1000
    /\ \/ /\ fx \in FxValues
          /\ probe = [NoProbe EXCEPT !.test = "trigger"]
       \/ /\ fx = GlobalFxDefault
          /\ \E start \in F32Unit, rate \in Rates, total \in F32Unit :
                probe = [NoProbe EXCEPT !.test = "decay", !.start = start, !.rate = rate,
                                        !.total = total, !.rem = total, !.value = start]
    /\ twin = NoTwin

\* fx.trigger_armour_break() in a test
unit_trigger ==
    /\ phase = "test"
    /\ probe.test = "trigger"
    /\ probe.triggers < MaxTriggers
    /\ fx' = trigger_armour_break(fx)
    /\ probe' = [probe EXCEPT !.triggers = @ + 1]
    /\ UNCHANGED <<phase, handles, screen, speed, histVars, twin>>
    /\ UNCHANGED poolVars
    /\ UNCHANGED runVars
    /\ UNCHANGED enemyVars

\* one sub-step of the splitting test: v.decay_to_zero(rate, chunk); rem -= chunk
unit_decay ==
    /\ phase = "test"
    /\ probe.test = "decay"
    /\ probe.steps < MaxSplit
    /\ \E chunk \in F32Unit :
          /\ chunk > 0
          /\ chunk <= probe.rem
          /\ probe.steps + 1 = MaxSplit => chunk = probe.rem
          /\ probe' = [probe EXCEPT !.value = decay_to_zero_f32(@, probe.rate, chunk),
                                    !.rem = @ - chunk,
                                    !.steps = @ + 1]
    /\ UNCHANGED <<phase, histVars, twin>>
    /\ UNCHANGED fxVars
    /\ UNCHANGED poolVars
    /\ UNCHANGED runVars
    /\ UNCHANGED enemyVars

NextNewtypes ==
    \/ unit_trigger
    \/ unit_decay

SpecNewtypes == InitNewtypes /\ [][NextNewtypes]_vars

-----------------------------------------------------------------------------
(* The hit-stop test (tests.rs:530-582): hit-stop and slow-motion both running, the
   real clock advanced by the same delta before every run of apply_global_fx; the
   handles set by hand, or left at their default. *)

MaxHitstop == 6                 \* longest hit-stop, in 10 ms
MaxFrames == MaxHitstop + 2     \* runs of apply_global_fx in one test
FrameTimes == 1..4              \* real deltas, in 10 ms
TEST_MIN_SPEED == 250           \* 0.25

HandlesByHand == [camera |-> CAMERA, overlay |-> OVERLAY, prev_shake_offset |-> Vec2ZERO]

InitHitstop ==
    /\ phase = "test"
    /\ capacity = 0
    /\ free = <<>>
    /\ bullets = <<>>
    /\ hist = <<>>
    /\ dropped = NoneDropped
    /\ requests = <<>>
    /\ chan = NoMessages
    /\ res = Resolved
    /\ seen = {}
    /\ marked = {}
    /\ nread = 0
    /\ InitEnemies
    /\ handles \in {HandlesByHand, FxHandlesDefault}
    /\ screen = [ScreenDefault EXCEPT !.camera_exists = TRUE, !.overlays = 1]
    /\ speed = 1000
    /\ \E h \in 1..MaxHitstop, d \in FrameTimes :
          /\ fx = [GlobalFxDefault EXCEPT
                     !.hitstop = RealSeconds_new(h),
                     !.slowmo_duration = RealSeconds_new(SLOWMO_DURATION),
                     !.slowmo_remaining = RealSeconds_new(SLOWMO_DURATION),
                     !.slowmo_min_speed = TEST_MIN_SPEED]
          /\ probe = [NoProbe EXCEPT !.test = "hitstop", !.start = h, !.rate = d]
    /\ twin = NoTwin

\* real.update_with_duration(d); world.run_system_once(apply_global_fx)
hitstop_apply ==
    /\ phase = "test"
    /\ probe.test = "hitstop"
    /\ probe.steps < MaxFrames
    /\ ApplyBody({probe.rate})
    /\ probe' = [probe EXCEPT !.steps = @ + 1]
    /\ UNCHANGED <<phase, histVars, twin>>
    /\ UNCHANGED poolVars
    /\ UNCHANGED runVars
    /\ UNCHANGED enemyVars

NextHitstop == hitstop_apply

SpecHitstop == InitHitstop /\ [][NextHitstop]_vars

-----------------------------------------------------------------------------
(* The camera shake test (tests.rs:415-460): the handles set by hand, the camera at
   some un-shaken position, trauma set by the test before each run of
   apply_global_fx. The camera's x coordinate and the offsets are values of the
   floating-point format above, and the subtraction and the addition of the CAMERA
   SHAKE section round as f32's do. *)

MaxShakes == 3     \* runs of apply_global_fx in one test

\* a + b, rounded to the format
f32_add(a, b) == RoundTo(a + b, Max(0, BitLen(a + b) - MantissaBits))

\* Faulty variant of ShakeStep: last frame's offset is not removed.
ShakeStep_keep(cam, prev, offset) ==
    [cam |-> f32_add(cam, offset), prev |-> offset]

\* translation.x -= prev_shake_offset.x; translation.x += offset.x (offset 0 when
\* trauma has decayed to zero); prev_shake_offset = offset
ShakeStep(cam, prev, offset) ==
    [cam |-> f32_add(f32_sub(cam, prev), offset), prev |-> offset]

InitShake ==
    /\ phase = "test"
    /\ capacity = 0
    /\ free = <<>>
    /\ bullets = <<>>
    /\ hist = <<>>
    /\ dropped = NoneDropped
    /\ requests = <<>>
    /\ chan = NoMessages
    /\ res = Resolved
    /\ seen = {}
    /\ marked = {}
    /\ nread = 0
    /\ InitEnemies
    /\ fx = GlobalFxDefault
    /\ handles = HandlesByHand
    /\ speed = 1000
    /\ \E base \in F32Unit :
          /\ screen = [ScreenDefault EXCEPT !.camera_exists = TRUE, !.overlays = 1,
                                            !.cam = <<base, 0>>, !.overlay_pos = <<base, 0>>]
          /\ probe = [NoProbe EXCEPT !.test = "shake", !.start = base]
    /\ twin = NoTwin

\* fx.trauma = t; world.run_system_once(apply_global_fx), the noise giving an offset of
\* any length up to the amplitude
shake_apply ==
    /\ phase = "test"
    /\ probe.test = "shake"
    /\ probe.steps < MaxShakes
    /\ \E t \in {0, 1000}, dt \in DTs, o \in F32Unit :
          LET tc == TimeControl(fx, dt)
              trauma == UnitF32_decay_to_zero(t, TRAUMA_DECAY, dt)
              flash == UnitF32_decay_to_zero(tc.fx.flash, FLASH_DECAY, dt)
              s == ShakeStep(screen.cam[1], handles.prev_shake_offset[1],
                             IF trauma > 0 THEN o ELSE 0)
          IN /\ fx' = [tc.fx EXCEPT !.trauma = trauma, !.flash = flash]
             /\ speed' = tc.speed
             /\ handles' = [handles EXCEPT !.prev_shake_offset = <<s.prev, 0>>]
             /\ screen' = [screen EXCEPT !.cam = <<s.cam, 0>>, !.overlay_pos = <<s.cam, 0>>,
                                         !.overlay_visible = (flash > FLASH_EPS)]
    /\ probe' = [probe EXCEPT !.steps = @ + 1]
    /\ UNCHANGED <<phase, histVars, twin>>
    /\ UNCHANGED poolVars
    /\ UNCHANGED runVars
    /\ UNCHANGED enemyVars

NextShake == shake_apply

SpecShake == InitShake /\ [][NextShake]_vars

-----------------------------------------------------------------------------
(* Properties *)

\* C1 (Spec): once the pool is initialized, the free list and the in-play records
\* partition the slots: |free| + |Active or PendingReturn| = capacity, every handle in
\* the free list names an Inactive record, and no handle is in the free list twice.
PoolPartition ==
    phase # "startup" =>
        /\ Len(bullets) = capacity
        /\ Len(free)
             + Cardinality({i \in Handles : bullets[i].state \in {"Active", "PendingReturn"}})
           = capacity
        /\ \A k \in 1..Len(free) : free[k] \in Handles /\ bullets[free[k]].state = "Inactive"
        /\ \A j, k \in 1..Len(free) : j # k => free[j] # free[k]

\* A record waits for the commit while another slot is free.
PoolPartitionWitness ==
    /\ phase = "commit"
    /\ Len(free) > 0
    /\ \E i \in Handles : bullets[i].state = "PendingReturn"

\* C2 (Spec): a record's state changes only Inactive -> Active (in the allocator's
\* step), Active -> PendingReturn (in the resolver's) or PendingReturn -> Inactive (in
\* the commit's), and after pool initialization the set of records never changes.
Lifecycle ==
    [][ /\ phase # "startup" => DOMAIN bullets' = DOMAIN bullets
        /\ \A i \in DOMAIN bullets \cap DOMAIN bullets' :
              bullets'[i].state # bullets[i].state =>
                 \/ /\ bullets[i].state = "Inactive"
                    /\ bullets'[i].state = "Active"
                    /\ phase = "allocate"
                 \/ /\ bullets[i].state = "Active"
                    /\ bullets'[i].state = "PendingReturn"
                    /\ phase = "resolving"
                 \/ /\ bullets[i].state = "PendingReturn"
                    /\ bullets'[i].state = "Inactive"
                    /\ phase = "commit" ]_vars

\* A record has gone the whole cycle: fired, bounced off walls until its budget was
\* spent, returned and recycled.
LifecycleWitness ==
    /\ phase = "death"
    /\ \E i \in Handles :
          /\ bullets[i].state = "Inactive"
          /\ hist[i].wallhits = DEFAULT_WALL_BOUNCES
          /\ ~hist[i].byenemy

ArmourGate ==
    [][ \A e \in Enemies :
          /\ armour[e].hits_remaining > 0 => health'[e] = health[e]
          /\ \A b \in Handles \ seen :
                ( /\ phase = "resolving"
                  /\ armour[e].hits_remaining = 0
                  /\ \/ ResolveStep(CollisionStart(b, e, b, e))
                     \/ ResolveStep(CollisionStart(e, b, e, b)) )
                => health'[e] = health[e] - bullets[b].damage
          /\ health'[e] # health[e] =>
                \E b \in Handles \ seen :
                   /\ b \in seen' /\ b \in marked'
                   /\ health'[e] = health[e] - bullets[b].damage ]_vars

\* In one run a first bullet was absorbed by the last armour hit (resolved, not
\* returned, no wall touched) and a second one then took its damage off the health.
ArmourGateWitness ==
    /\ phase = "resolving"
    /\ \E e \in Enemies, b1, b2 \in Handles :
          /\ b1 \in seen \ marked /\ hist[b1].wallhits = 0
          /\ bullets[b1].wall_bounces_left = hist[b1].budget0
          /\ b2 \in marked /\ hist[b2].byenemy
          /\ armour[e].hits_remaining = 0
          /\ health[e] = UNIT_HP - bullets[b2].damage

\* C5 (SpecFx), as amended: every apply step that runs with the camera and overlay
\* handles resolved sets the playback rate to 0 if the hit-stop it finds is positive,
\* else into [slowmo_min_speed, 1] if the slow-motion it finds is positive, else to 1.
TimePrecedence ==
    [][ (phase = "apply" /\ handles.camera # None /\ handles.overlay # None) =>
           IF fx.hitstop > 0 THEN speed' = 0
           ELSE IF fx.slowmo_remaining > 0
                THEN fx.slowmo_min_speed <= speed' /\ speed' <= 1000
                ELSE speed' = 1000 ]_vars

\* C5 as stated: the same of every apply step.
TimePrecedenceAsStated ==
    [][ phase = "apply" =>
           IF fx.hitstop > 0 THEN speed' = 0
           ELSE IF fx.slowmo_remaining > 0
                THEN fx.slowmo_min_speed <= speed' /\ speed' <= 1000
                ELSE speed' = 1000 ]_vars

\* An apply step has just frozen the clock although slow-motion is pending.
TimePrecedenceWitness ==
    /\ phase = "fxtick"
    /\ handles.camera # None /\ handles.overlay # None
    /\ speed = 0
    /\ fx.hitstop > 0
    /\ fx.slowmo_remaining > 0

\* C6 (SpecResolver): in one run a message naming a bullet already resolved in that run
\* changes no record, armour, health or queued return; a message step resolves at most
\* one bullet; and every run starts with an empty de-dup set.
Dedup ==
    [][ /\ (phase = "resolving" /\ phase' = "resolving") =>
              /\ \A b \in seen :
                    /\ bullets'[b] = bullets[b]
                    /\ b \in marked' <=> b \in marked
              /\ seen' = seen => UNCHANGED <<bullets, armour, health, marked>>
              /\ seen \subseteq seen' /\ Cardinality(seen') <= Cardinality(seen) + 1
        /\ (phase # "resolving" /\ phase' = "resolving") => seen' = {} ]_vars

\* Two messages of this run named the same bullet, which an earlier run had resolved
\* too (it has spent two bounces, and a run spends at most one).
DedupWitness ==
    /\ phase = "resolving"
    /\ nread >= 2
    /\ \E b \in Handles :
          /\ seen = {b}
          /\ hist[b].wallhits >= 2
          /\ bullets[b].wall_bounces_left = hist[b].budget0 - hist[b].wallhits

\* C7 (SpecAlloc): an allocator run gives the k-th request, while the free list lasts,
\* the k-th handle from the top of the free list: that record becomes Active and
\* visible with the request's position, velocity and damage, the default bounce
\* budget and the active layers of the request's kind; the handles are removed from
\* the free list and every other record is unchanged.
AllocatorEffect ==
    [][ (phase = "unit" /\ requests # <<>> /\ requests' = <<>>) =>
           LET k == IF Len(requests) < Len(free) THEN Len(requests) ELSE Len(free)
               popped == { free[Len(free) - j + 1] : j \in 1..k }
           IN /\ free' = SubSeq(free, 1, Len(free) - k)
              /\ \A j \in 1..k :
                    bullets'[free[Len(free) - j + 1]] =
                       [state |-> "Active",
                        damage |-> requests[j].damage,
                        wall_bounces_left |-> DEFAULT_WALL_BOUNCES,
                        pos |-> requests[j].pos,
                        vel |-> requests[j].vel,
                        vis |-> "Visible",
                        layers |-> IF requests[j].kind = "Player"
                                   THEN [memberships |-> {"PlayerBullet"},
                                         filters |-> {"World", "Enemy"}]
                                   ELSE [memberships |-> {"EnemyBullet"},
                                         filters |-> {"World", "Player"}]]
              /\ \A e \in Handles \ popped : bullets'[e] = bullets[e] ]_vars

\* The last run fired a slot that had spent its budget in an earlier use, for an
\* enemy-kind request, and another slot is still free.
AllocatorEffectWitness ==
    /\ phase = "unit"
    /\ requests = <<>>
    /\ dropped.reused
    /\ Len(free) > 0
    /\ \E e \in Handles :
          /\ bullets[e].state = "Active"
          /\ bullets[e].layers = active_enemy_layers
          /\ bullets[e].wall_bounces_left = DEFAULT_WALL_BOUNCES

\* C8 (Spec): the allocator's run leaves no request behind; with the free list empty
\* it changes no record and no pool state; so a request that found the pool exhausted
\* is in no queue afterwards.
DroppedForGood ==
    [][ /\ phase = "allocate" =>
              /\ requests' = <<>>
              /\ free = <<>> => UNCHANGED <<bullets, free, capacity>>
        /\ (phase # "update" /\ phase # "allocate") => requests = <<>> /\ requests' = <<>> ]_vars

\* The last allocator run dropped a request; a slot has been returned since and no
\* request is queued.
DroppedForGoodWitness ==
    /\ phase = "death"
    /\ dropped.count > 0
    /\ capacity > 0
    /\ Len(free) > 0
    /\ requests = <<>>

\* C9 (Spec): a commit run makes every PendingReturn record Inactive, hidden, at rest
\* and non-colliding and appends its handle to the free list once; it changes no other
\* record and leaves the handles already in the free list in place.
CommitEffect ==
    [][ (phase = "commit" /\ phase' = "death") =>
           /\ \A i \in Handles :
                 IF bullets[i].state = "PendingReturn"
                 THEN /\ bullets'[i] = [bullets[i] EXCEPT
                                           !.state = "Inactive",
                                           !.vel = <<0, 0>>,
                                           !.vis = "Hidden",
                                           !.layers = [memberships |-> {"PlayerBullet"},
                                                       filters |-> {}]]
                      /\ Cardinality({k \in 1..Len(free') : free'[k] = i}) = 1
                 ELSE /\ bullets'[i] = bullets[i]
                      /\ Cardinality({k \in 1..Len(free') : free'[k] = i})
                           = Cardinality({k \in 1..Len(free) : free[k] = i})
           /\ Len(free') >= Len(free)
           /\ SubSeq(free', 1, Len(free)) = free ]_vars

\* A commit has just recycled a record an enemy consumed while another record stays
\* Active.
CommitEffectWitness ==
    /\ phase = "death"
    /\ \E i, j \in Handles :
          /\ bullets[i].state = "Inactive" /\ hist[i].byenemy
          /\ free[Len(free)] = i
          /\ bullets[j].state = "Active"

\* C10 (Spec): for every capacity c, init_bullet_pool leaves exactly c records and a
\* free list holding exactly their c handles, every record Inactive, hidden, at rest,
\* with an empty filter and the default bounce budget.
InitEffect ==
    [][ phase = "startup" =>
           /\ Len(bullets') = capacity
           /\ Len(free') = capacity
           /\ { free'[k] : k \in 1..Len(free') } = 1..capacity
           /\ \A i \in 1..capacity :
                 /\ bullets'[i].state = "Inactive"
                 /\ bullets'[i].vis = "Hidden"
                 /\ bullets'[i].vel = <<0, 0>>
                 /\ bullets'[i].layers.filters = {}
                 /\ bullets'[i].wall_bounces_left = DEFAULT_WALL_BOUNCES ]_vars

\* The largest pool, right after its initialization.
InitEffectWitness ==
    /\ phase = "fixed"
    /\ capacity = MaxCapacity
    /\ Len(free) = capacity
    /\ \A i \in Handles : bullets[i] = PooledRecord /\ hist[i] = NewHist(PooledRecord)
    /\ dropped = NoneDropped /\ nread = 0 /\ seen = {}

\* C11 (SpecResolver): a resolved contact of an Active bullet with an enemy queues the
\* bullet for return iff the enemy's armour was 0 at the contact; with armour > 0 the
\* armour drops by exactly one, health is unchanged and the bullet's record (state,
\* bounce budget) is unchanged; the end of the run makes exactly the queued bullets
\* PendingReturn.
ConsumedIffUnarmoured ==
    [][ /\ \A e \in Enemies : \A b \in Handles \ seen :
              ( /\ phase = "resolving"
                /\ bullets[b].state = "Active"
                /\ \/ ResolveStep(CollisionStart(b, e, b, e))
                   \/ ResolveStep(CollisionStart(e, b, e, b)) )
              => IF armour[e].hits_remaining = 0
                 THEN b \in marked'
                 ELSE /\ armour'[e].hits_remaining = armour[e].hits_remaining - 1
                      /\ health'[e] = health[e]
                      /\ b \notin marked'
                      /\ bullets'[b] = bullets[b]
        /\ (phase = "resolving" /\ phase' = "commit") =>
              \A b \in Handles :
                 /\ b \in marked => bullets[b].state = "Active"
                 /\ bullets'[b].state = "PendingReturn"
                       <=> (b \in marked \/ bullets[b].state = "PendingReturn") ]_vars

\* A run has ended in which armour absorbed one bullet, which is still Active with its
\* budget, and the unarmoured enemy then consumed another, now PendingReturn.
ConsumedIffUnarmouredWitness ==
    /\ phase = "commit"
    /\ \E e \in Enemies, b1, b2 \in Handles :
          /\ b1 \in seen /\ bullets[b1].state = "Active"
          /\ hist[b1].wallhits = 0 /\ bullets[b1].wall_bounces_left = hist[b1].budget0
          /\ bullets[b2].state = "PendingReturn" /\ hist[b2].byenemy
          /\ armour[e].hits_remaining = 0
          /\ health[e] = UNIT_HP - bullets[b2].damage

\* C12 (SpecNewtypes): from any effects state, one armour-break trigger leaves trauma,
\* flash, hit-stop and the slow-motion countdown all above zero, lowers neither
\* countdown, and keeps trauma and flash at or below 1.0 however often it is repeated.
TriggerEffect ==
    [][ probe'.triggers = probe.triggers + 1 =>
          /\ fx'.trauma > 0 /\ fx'.trauma <= 1000
          /\ fx'.flash > 0 /\ fx'.flash <= 1000
          /\ fx'.hitstop > 0 /\ fx'.hitstop >= fx.hitstop
          /\ fx'.slowmo_remaining > 0 /\ fx'.slowmo_remaining >= fx.slowmo_remaining ]_vars

\* Two triggers on a state whose countdowns ran beyond the presets: both are kept.
TriggerEffectWitness ==
    /\ probe.test = "trigger"
    /\ probe.triggers = 2
    /\ fx.hitstop > HITSTOP
    /\ fx.slowmo_remaining > SLOWMO_DURATION
    /\ fx.trauma = 1000
    /\ fx.flash = 1000

\* C13 (SpecFx): under every interleaving of triggers and apply steps, trauma and flash
\* stay within [0, 1] and hit-stop, the slow-motion countdown and the slow-motion
\* duration are never negative.
FxRanges ==
    /\ fx.trauma \in 0..1000
    /\ fx.flash \in 0..1000
    /\ fx.hitstop >= 0
    /\ fx.slowmo_remaining >= 0
    /\ fx.slowmo_duration >= 0

\* Apply steps after a trigger have run the flash and the hit-stop down to their
\* floor while trauma and slow-motion are still running.
FxRangesWitness ==
    /\ phase = "fxtick"
    /\ handles.camera # None
    /\ fx.flash = 0
    /\ fx.hitstop = 0
    /\ fx.trauma > 0
    /\ fx.slowmo_remaining > 0

ScheduleOrder ==
    [][ /\ requests' # requests /\ requests' # <<>> =>
              phase = "update" /\ phase' = "allocate"
        /\ phase = "allocate" =>
              /\ requests' = <<>>
              /\ Cardinality({i \in Handles : bullets[i].state # bullets'[i].state})
                    + dropped'.count = Len(requests)
        /\ phase # "allocate" => \A i \in Handles : bullets'[i].state # "Active"
                                                       \/ bullets[i].state = "Active"
        /\ (phase # "resolving" /\ phase' = "resolving") => phase = "physics"
        /\ (armour' # armour \/ health' # health \/ seen' # seen) =>
              phase \in {"physics", "resolving"} /\ phase' = "resolving"
        /\ (\E i \in Handles : bullets[i].state = "PendingReturn"
                                  /\ bullets'[i].state # "PendingReturn") =>
              phase = "commit" /\ marked = {}
        /\ (phase # "commit" /\ phase' = "commit") => phase = "resolving"
        /\ (life' # life \/ dying' # dying \/ removal' # removal \/ elayers' # elayers) =>
              \/ phase \in {"commit", "death"} /\ phase' = phase
              \/ /\ phase \in {"post", "despawn"}
                 /\ life' = life /\ dying' = dying /\ elayers' = elayers
        /\ (\E e \in Enemies : life[e] = "Dying" /\ dying'[e] # dying[e]) =>
              lifestep = "triggered"
        /\ phase' = "fixed" =>
              /\ \A i \in DOMAIN bullets' : bullets'[i].state # "PendingReturn"
              /\ \A e \in Enemies : ~(life'[e] = "Alive" /\ health'[e] <= 0) ]_vars

\* A tick has ended in which the resolver brought an enemy to health 0 with a bullet:
\* the trigger and one progress step have run on it and the commit has recycled the
\* bullet.
ScheduleOrderWitness ==
    /\ phase = "fixed"
    /\ \E e \in Enemies :
          /\ health[e] <= 0
          /\ life[e] = "Dying"
          /\ dying[e] = FIXED_DELTA
    /\ \E i \in Handles :
          /\ bullets[i].state = "Inactive"
          /\ hist[i].byenemy
          /\ free[Len(free)] = i

\* C16 (Spec): a spawn intent is consumed at most once. A written message is unread
\* once; an allocator run handles exactly the unread messages, each by activating one
\* record or by dropping it, and leaves them read; a message that is read stays read
\* for as long as the double buffer keeps it, whatever number of frames that is, and
\* no step but the producer's makes a message unread.
ConsumedOnce ==
    [][ /\ phase = "allocate" =>
              /\ Cardinality({i \in Handles : bullets[i].state = "Inactive"
                                               /\ bullets'[i].state = "Active"})
                    + dropped'.count = Len(requests)
              /\ requests' = <<>>
              /\ chan'.read = chan.read \o requests
        /\ phase = "update" => /\ Len(requests') <= Len(requests) + 1
                               /\ chan' = chan
        /\ phase \notin {"allocate", "update"} =>
              /\ Len(requests') <= Len(requests)
              /\ Len(chan'.read) <= Len(chan.read)
              /\ \A i \in Handles : bullets'[i].state = "Active" => bullets[i].state = "Active" ]_vars

\* The frame after a shot: the message is still buffered, the allocator has run again
\* and has left the second slot of the pool unfired.
ConsumedOnceWitness ==
    /\ phase = "post"
    /\ requests = <<>>
    /\ Len(chan.read) = 1
    /\ chan.older = 1
    /\ Len(bullets) = 2
    /\ Len(free) = 1
    /\ \E i \in Handles : bullets[i].state = "Active" /\ hist[i].wallhits = 0
    /\ bullets[free[1]].wall_bounces_left = DEFAULT_WALL_BOUNCES
    /\ \A e \in Enemies : health[e] = INITIAL_HP /\ armour[e].hits_remaining = INITIAL_ARMOUR

\* C17 as stated (SpecInput): with the aim absent, or the camera or the player not
\* resolved, the aim resolver and the request producer end without a failure, and the
\* producer writes no request.
AbsenceIsNoOp ==
    [][ ( /\ phase \in {"aim", "update", "lateaim"}
          /\ res.aim = NoVec2 \/ res.player = None \/ res.camera = None ) =>
            /\ phase' # "panic"
            /\ ( /\ phase = "update" \/ phase' = "lateaim"
                 /\ res.aim = NoVec2 \/ res.player = None ) =>
                  /\ requests' = requests
                  /\ UNCHANGED <<capacity, free, bullets, chan, res>> ]_vars

\* The handles one allocator step popped, in the order it popped them.
Popped == [k \in 1..(Len(free) - Len(free')) |-> free[Len(free) + 1 - k]]

LifeForward ==
    [][ \A e \in Enemies :
          \/ life'[e] = life[e]
          \/ /\ life[e] = "Alive" /\ life'[e] = "Dying"
             /\ health[e] <= 0
             /\ lifestep = "idle" /\ lifestep' = "triggered"
          \/ /\ life[e] = "Dying" /\ life'[e] = "Dead"
             /\ dying'[e] >= DYING_DURATION
             /\ lifestep = "triggered" /\ lifestep' = "done" ]_vars

\* An enemy went through Dying for the whole duration and is Dead.
LifeForwardWitness ==
    \E e \in Enemies : life[e] = "Dead" /\ dying[e] = DYING_DURATION /\ health[e] <= 0

\* C20 (Spec): an enemy is marked for removal in the step that makes it Dead and in no
\* other; it is despawned only by a PostUpdate step and only when marked, and no frame
\* ends with a marked enemy left; a marked or despawned enemy never comes back.
DeferredRemoval ==
    [][ \A e \in Enemies :
          /\ (removal[e] # "none") <=> (life[e] = "Dead")
          /\ (removal[e] = "none" /\ removal'[e] # "none") <=>
                (life[e] # "Dead" /\ life'[e] = "Dead")
          /\ removal[e] = "none" => removal'[e] \in {"none", "marked"}
          /\ removal[e] = "marked" => removal'[e] \in {"marked", "despawned"}
          /\ removal[e] = "despawned" => removal'[e] = "despawned"
          /\ (removal[e] = "marked" /\ removal'[e] = "despawned") =>
                /\ phase \in {"post", "despawn"}
                /\ phase' \in {"messages", "fixed"}
          /\ (removal[e] = "marked" /\ phase \in {"despawn", "messages"}) =>
                removal'[e] = "despawned" ]_vars

\* A Dead enemy was despawned after the fixed ticks of its frame.
DeferredRemovalWitness ==
    \E e \in Enemies : removal[e] = "despawned" /\ life[e] = "Dead" /\ phase = "fixed"

\* C21 (Spec): every Inactive record is hidden, has zero velocity and empty collision
\* filters, and every Active record is visible and has the filters of a bullet in play.
StateDeterminesPresence ==
    \A i \in Handles :
        /\ bullets[i].state = "Inactive" =>
              /\ bullets[i].vis = "Hidden"
              /\ bullets[i].vel = Vec2ZERO
              /\ bullets[i].layers.filters = {}
        /\ bullets[i].state = "Active" =>
              /\ bullets[i].vis = "Visible"
              /\ bullets[i].layers = active_player_layers

\* One record is in play while another, fired and recycled before, is Inactive again.
StateDeterminesPresenceWitness ==
    \E i, j \in Handles :
        /\ bullets[i].state = "Active"
        /\ bullets[j].state = "Inactive"
        /\ hist[j].wallhits > 0

\* C22 as stated (SpecStale): a resolver step changes no record that is not Active,
\* and changes no armour and no health when no record is Active.
NonActiveSkipped ==
    [][ phase = "resolving" =>
          /\ \A i \in Handles : bullets[i].state # "Active" => bullets'[i] = bullets[i]
          /\ (\A i \in Handles : bullets[i].state # "Active") =>
                (armour' = armour /\ health' = health) ]_vars

\* The two resolvers agree on every record's state and bounce budget and on every
\* enemy's armour and health.
SameOutcome ==
    /\ \A i \in Handles :
          /\ bullets[i].state = twin.bullets[i].state
          /\ bullets[i].wall_bounces_left = twin.bullets[i].wall_bounces_left
    /\ armour = twin.armour
    /\ health = twin.health

BreakAlwaysTriggers ==
    [][ phase = "armourfx" =>
          \A e \in Enemies :
              ( /\ armour[e].hits_remaining = 0
                /\ armourfx[e].last_hits_remaining > 0
                /\ life[e] = "Alive" \/ (life[e] = "Dying" /\ dying[e] = 0) ) =>
                  /\ fx' = trigger_armour_break(fx)
                  /\ probe'.triggers = probe.triggers + 1 ]_vars

\* C25 (SpecFrame): a step that changes the virtual clock's relative speed, the remembered
\* shake offset, or the overlay's opacity or visibility is a step of apply_global_fx; the
\* resolver, the commit, the enemy lifecycle systems and the armour-break trigger leave
\* all of them as they were.
SingleWriter ==
    [][ ( \/ speed' # speed
          \/ handles'.prev_shake_offset # handles.prev_shake_offset
          \/ screen'.overlay_alpha # screen.overlay_alpha
          \/ screen'.overlay_visible # screen.overlay_visible ) => phase = "apply" ]_vars

\* armour_fx_update has just applied the preset with both handles resolved: the clock
\* still runs at the rate the last apply step set and the overlay is still hidden.
SingleWriterWitness ==
    /\ phase = "progress"
    /\ probe.triggers = 1
    /\ fx.flash = 1000 /\ fx.hitstop > 0
    /\ handles.camera # None /\ handles.overlay # None
    /\ speed = 1000
    /\ ~screen.overlay_visible

\* C26 (SpecFx): a cached camera or overlay handle is never changed by a later step, no
\* overlay is spawned while the overlay handle is cached, and there is never more than
\* one flash overlay.
HandlesTrusted ==
    [][ /\ handles.camera # None => handles'.camera = handles.camera
        /\ handles.overlay # None =>
              /\ handles'.overlay = handles.overlay
              /\ screen'.overlays = screen.overlays
        /\ screen'.overlays <= 1 ]_vars

\* Both handles were resolved in an earlier frame (an apply step has stopped the clock
\* since), and ensure_fx_handles has run again.
HandlesTrustedWitness ==
    /\ phase = "apply"
    /\ speed = 0
    /\ handles.camera = CAMERA /\ handles.overlay = OVERLAY
    /\ screen.overlays = 1

\* the least whole number of steps of d that cover h
Ceil(h, d) == (h + d - 1) \div d

\* The k-th run of apply_global_fx (from 0) of the hit-stop test, h = probe.start and
\* d = probe.rate: the first Ceil(h, d) runs set the rate to 0 and leave the slow-motion
\* countdown alone, the next one consumes slow-motion and sets a rate in
\* [slowmo_min_speed, 1.0], and no later run sets the rate to 0.
HitstopSteps ==
    LET k == probe.steps
        n == Ceil(probe.start, probe.rate)
    IN /\ k < n => /\ speed' = 0
                   /\ fx'.slowmo_remaining = fx.slowmo_remaining
       /\ k = n => /\ fx'.slowmo_remaining < fx.slowmo_remaining
                   /\ speed' >= fx.slowmo_min_speed /\ speed' <= 1000
       /\ k >= n => speed' > 0

Abs(x) == IF x < 0 THEN -x ELSE x

DyingNonInteracting ==
    \A e \in Enemies :
        life[e] \in {"Dying", "Dead"} =>
            /\ elayers[e] = non_interacting_enemy_layers
            /\ elayers[e].filters = {}
            /\ \A b \in Handles : ~interacts_with(bullets[b].layers, elayers[e])
            /\ ~interacts_with(wall_layers, elayers[e])

\* The death trigger has just made an enemy Dying while a bullet is in flight.
DyingNonInteractingWitness ==
    /\ lifestep = "triggered"
    /\ \E e \in Enemies : life[e] = "Dying" /\ dying[e] = 0
    /\ \E b \in Handles : bullets[b].state = "Active"

\* the decay steps so far cover start / rate: rate * elapsed >= start
DecayTimeUp(p) == p.rate > 0 /\ p.rate * (p.total - p.rem) >= p.start * Pow2(FracBits)

DamageGoesToOwner ==
    phase = "resolving" =>
        \A ev \in TestFacts :
            (OneBullet(ev) /\ BulletOf(ev) \notin seen /\ HasLayers(OtherSide(ev).collider)) =>
                LET r == ResolveFact(RunState, ev)
                    b == BulletOf(ev)
                    shape == OtherSide(ev).collider
                    owner == IF OtherSide(ev).body # None THEN OtherSide(ev).body ELSE shape
                    layers == LayersOf(bullets, shape)
                IN IF is_in_layer(layers, "World") \/ ~is_in_layer(layers, "Enemy")
                   THEN r.armour = armour /\ r.health = health
                   ELSE /\ \A e \in DOMAIN armour \ {owner} :
                              r.armour[e] = armour[e] /\ r.health[e] = health[e]
                        /\ owner \in DOMAIN armour =>
                              IF armour[owner].hits_remaining > 0
                              THEN /\ r.armour[owner].hits_remaining =
                                        armour[owner].hits_remaining - 1
                                   /\ r.health[owner] = health[owner]
                              ELSE /\ r.armour[owner] = armour[owner]
                                   /\ r.health[owner] = health[owner] - bullets[b].damage

\* The run has read a message whose enemy side is the hitbox shape with the enemy as
\* its body: the enemy's armour is worn, the hitbox's own armour is not.
DamageGoesToOwnerWitness ==
    /\ phase = "resolving"
    /\ nread = 1
    /\ \E e \in Enemies :
          /\ twin.last = <<CollisionStart(1, HITBOX, 1, e)>>
          /\ armour[e].hits_remaining = 0
          /\ armour[HITBOX].hits_remaining = 1

\* C32 (SpecFacts): during a run, whatever messages it has read so far, the run that
\* has read the same messages with the two sides of some of them exchanged has left
\* the same records, armour, health and queued returns.
SidesUnordered ==
    phase = "resolving" => Outcome(RunState) = Outcome(twin.swapped)

\* C33 (SpecFacts): during a run, the run that has read the same list without its
\* ignored messages (not exactly one pooled bullet, or an other side that is neither
\* World nor Enemy) has left the same records, armour, health and queued returns.
IgnoredNoEffect ==
    phase = "resolving" => Outcome(RunState) = Outcome(twin.pruned)

\* C34 (SpecFacts): during a run, the run that has read the same list without its
\* unresolvable messages (other side without layers, enemy shape whose owner has no
\* Armour or no Health) has left the same records, armour, health and queued returns.
FaultsIndependent ==
    phase = "resolving" => Outcome(RunState) = Outcome(twin.resolvable)

\* the handles above the first n of a free list
Above(f, n) == { f[j] : j \in (n + 1)..Len(f) }

\* C35 (Spec): the free list is a stack. A step that shortens it takes handles off its
\* end and nothing else: what is left is the prefix, the records that go from Inactive
\* to Active are exactly the handles taken off, and the first request of the run gets
\* the handle that was last. A step that lengthens it leaves what was there in place
\* and puts on top the handles it pushes: all of them at startup, the records that go
\* from PendingReturn to Inactive in a commit. No other step changes the list.
FreeListIsStack ==
    [][ /\ Len(free') = Len(free) => free' = free
        /\ Len(free') < Len(free) =>
              /\ free' = SubSeq(free, 1, Len(free'))
              /\ Above(free, Len(free')) =
                    { i \in DOMAIN bullets :
                        bullets[i].state = "Inactive" /\ bullets'[i].state = "Active" }
              /\ bullets'[free[Len(free)]] = Activated(bullets[free[Len(free)]], Head(requests))
        /\ Len(free') > Len(free) =>
              /\ SubSeq(free', 1, Len(free)) = free
              /\ IF bullets = <<>>
                 THEN free' = [i \in 1..capacity |-> i]
                 ELSE Above(free', Len(free)) =
                        { i \in DOMAIN bullets :
                            bullets[i].state = "PendingReturn"
                                /\ bullets'[i].state = "Inactive" }
      ]_vars

\* The allocator has just handed out a record that had been in play before and was
\* recycled by a commit (it came back with a spent bounce budget), while the other
\* record stayed on the list below it.
FreeListIsStackWitness ==
    /\ phase = "post"
    /\ dropped.reused
    /\ Len(free) >= 1

\* C36 (Spec): a record is PendingReturn only between the end of the resolver run and
\* the commit of the same tick. At every other point of the schedule (the end of the
\* tick, the rest of the fixed loop, Update with the allocator, PostUpdate) every
\* record is Inactive or Active, and every Inactive record is on the free list.
NoPendingOutsideTick ==
    phase # "commit" =>
        \A i \in Handles :
            /\ bullets[i].state \in {"Inactive", "Active"}
            /\ bullets[i].state = "Inactive" => i \in Above(free, 0)

\* The allocator is about to run and finds on the free list a record that the
\* resolver had marked on an enemy contact.
NoPendingOutsideTickWitness ==
    /\ phase = "allocate"
    /\ \E i \in Handles :
          /\ hist[i].byenemy
          /\ bullets[i].state = "Inactive"
          /\ i \in Above(free, 0)

\* C37 (FairLife): an enemy whose health is 0 or less is eventually despawned, also
\* when a hit-stop has set the clock's rate to 0 and no fixed tick runs for a while.
DeadEventuallyRemoved ==
    \A e \in Enemies : (health[e] <= 0) ~> (removal[e] = "despawned")

\* An enemy has been despawned after a frame that began at rate 0 while it was Dying.
DeadEventuallyRemovedWitness ==
    /\ probe.steps = 1
    /\ \E e \in Enemies : health[e] <= 0 /\ removal[e] = "despawned"

\* a countdown of the time control is running
Counting == fx.hitstop > 0 \/ fx.slowmo_remaining > 0

\* both countdowns are at zero and the clock runs at its normal rate
Recovered == fx.hitstop = 0 /\ fx.slowmo_remaining = 0 /\ speed = 1000

\* the phases of a fixed tick
TickPhases == {"run", "resolving", "commit", "death", "armourfx", "progress"}

\* The rate stays at 1.0 while no countdown runs; at rate 0 no fixed tick runs and
\* no countdown is set or raised.
RateSteady ==
    /\ [][(~Counting /\ speed = 1000) => speed' = 1000]_vars
    /\ [](speed = 0 => phase \notin TickPhases)
    /\ [][speed = 0 => (fx'.hitstop <= fx.hitstop
                          /\ fx'.slowmo_remaining <= fx.slowmo_remaining)]_vars

\* C38 as stated (FairLife): whenever a countdown runs, both countdowns eventually
\* reach zero with the rate back at 1.0, and the rate is steady as above.
TimeRecoversAsStated ==
    /\ Counting ~> Recovered
    /\ RateSteady

\* C38 (FairLife): where a camera exists (so that both effect handles are resolved
\* in the first frame), whenever a countdown runs, both countdowns eventually reach
\* zero with the rate back at 1.0; in every configuration the rate is steady.
TimeRecovers ==
    /\ (screen.camera_exists /\ Counting) ~> Recovered
    /\ RateSteady

\* An armour break has triggered the time control, the rate has been 0 for a frame
\* while an enemy was Dying, and the clock is back at its normal rate.
TimeRecoversWitness ==
    /\ probe.triggers >= 1
    /\ probe.steps = 1
    /\ handles.camera # None
    /\ Recovered

\* C39 (SpecLife): a run of apply_global_fx that finds the camera handle or the
\* overlay handle unresolved changes nothing: the countdowns, trauma and flash, the
\* cached handles and shake offset, the camera, the overlay and the clock's rate are
\* after the run what they were before it.
UnresolvedApplyIdle ==
    [][(phase = "apply" /\ (handles.camera = None \/ handles.overlay = None)) =>
          (fx' = fx /\ handles' = handles /\ screen' = screen /\ speed' = speed)]_vars

\* Headless, after an armour break: apply_global_fx has just run, and hit-stop,
\* slow-motion, trauma and flash are as the trigger left them, the rate is 1.0.
UnresolvedApplyIdleWitness ==
    /\ phase = "cleanup"
    /\ handles.camera = None
    /\ probe.triggers = 1
    /\ fx = trigger_armour_break(GlobalFxDefault)
    /\ speed = 1000

\* C40 (Spec): armour only wears down. In every state hits_remaining is between 0
\* and max_hits; no step raises it, a step (one resolved contact at most) lowers it
\* by at most one, and once it is 0 it stays 0, so an enemy's armour breaks once.
ArmourOnlyWears ==
    /\ [](\A e \in Enemies :
            /\ armour[e].hits_remaining >= 0
            /\ armour[e].hits_remaining <= armour[e].max_hits)
    /\ [][\A e \in Enemies :
            /\ armour'[e].hits_remaining <= armour[e].hits_remaining
            /\ armour'[e].hits_remaining >= armour[e].hits_remaining - 1
            /\ armour'[e].max_hits = armour[e].max_hits
            /\ armour[e].hits_remaining = 0 => armour'[e].hits_remaining = 0]_vars

\* An enemy whose armour has been worn from its initial value to 0 and whose health
\* has then been damaged.
ArmourOnlyWearsWitness ==
    \E e \in Enemies :
        /\ armour[e].max_hits = INITIAL_ARMOUR
        /\ armour[e].hits_remaining = 0
        /\ health[e] < INITIAL_HP

=============================================================================
